---- MODULE Spec2Model ----
(***************************************************************************)
(* Model of the AnkiDeck TTS add-on (soy-sauce-sanya/ankideck-tts): the    *)
(* job queue of TTSDialog (src/dialog.py), the work unit it dispatches per *)
(* job, and the text helpers the work unit uses.                           *)
(*                                                                         *)
(* Threads.  The foreground (Qt) thread runs one handler at a time: the    *)
(* button handlers and the closures that mw.taskman.run_on_main and        *)
(* run_in_background post to it, in the order they were posted (mainq).    *)
(* A work unit (the closure bg of _process_job) runs on a pool thread in   *)
(* three steps (read and skip checks, synthesis, store and write); when    *)
(* run_in_background raises, the same steps run on the foreground thread,  *)
(* which is then blocked (fg is the job it runs) until on_done returns.    *)
(*                                                                         *)
(* Text.  A string is a sequence of one-character strings; the markers     *)
(* "[sound:", "{nid}", "{field}", "{ext}", "{bad}" and the HTML entities   *)
(* are single symbols of the alphabet.                                     *)
(***************************************************************************)
EXTENDS Integers, Sequences, FiniteSets, TLC

\* ---------------------------------------------------------------- bounds
\* Most jobs ever enqueued in one behaviour of Spec.
MaxJobs == 2
\* Most jobs ever enqueued in one behaviour of SpecQueue and SpecLive.
QueueJobs == 3
\* Most jobs ever enqueued in one behaviour of SpecScenario.
ScenarioJobs == 3
\* Most record ids a single handler call enqueues.
MaxSel == 2
\* Record ids of the host store are 1..NumNotes.
NumNotes == 2

Nids == 1..NumNotes

\* ------------------------------------------------------------------ text
WS == {" "}

RECURSIVE LStrip(_)
LStrip(s) == IF s # <<>> /\ Head(s) \in WS THEN LStrip(Tail(s)) ELSE s

RECURSIVE RStrip(_)
RStrip(s) ==
    IF s # <<>> /\ s[Len(s)] \in WS THEN RStrip(SubSeq(s, 1, Len(s) - 1)) ELSE s

\* str.strip()
Strip(s) == RStrip(LStrip(s))

\* s[:n]
Prefix(s, n) == SubSeq(s, 1, IF Len(s) < n THEN Len(s) ELSE n)

\* `t in s` for strings
Contains(s, t) ==
    \E i \in 0..(Len(s) - Len(t)) : SubSeq(s, i + 1, i + Len(t)) = t

\* The tag without its closing bracket.
RenderTagOpen(fname) == <<"[sound:">> \o fname

\* render_sound_tag: "[sound:" + fname + "]"
render_sound_tag(fname) == <<"[sound:">> \o fname \o <<"]">>

\* strip_html: re.sub(r"<[^>]+>", "", text), then html.unescape.
\* Position of the first ">" of s at or after i, 0 when there is none.
RECURSIVE FirstGt(_, _)
FirstGt(s, i) ==
    IF i > Len(s) THEN 0 ELSE IF s[i] = ">" THEN i ELSE FirstGt(s, i + 1)

RECURSIVE StripTagsFrom(_, _)
StripTagsFrom(s, i) ==
    IF i > Len(s) THEN <<>>
    ELSE IF s[i] = "<" /\ FirstGt(s, i + 1) > i + 1
         THEN StripTagsFrom(s, FirstGt(s, i + 1) + 1)
         ELSE <<s[i]>> \o StripTagsFrom(s, i + 1)

UnescapeChar(c) ==
    CASE c = "&lt;" -> "<"
      [] c = "&gt;" -> ">"
      [] c = "&amp;" -> "&"
      [] OTHER -> c

Unescape(s) == [i \in 1..Len(s) |-> UnescapeChar(s[i])]

\* strip_html decoding the entities before it removes the tags.
strip_html_decode_first(text) ==
    IF text = <<>> THEN <<>> ELSE StripTagsFrom(Unescape(text), 1)

strip_html(text) ==
    IF text = <<>> THEN <<>> ELSE Unescape(StripTagsFrom(text, 1))

\* safe_filename_from_text
UnsafeChars == {"<", ">", ":", "\"", "/", "\\", "|", "?", "*"}

RECURSIVE RemoveChars(_, _)
RemoveChars(s, bad) ==
    IF s = <<>> THEN <<>>
    ELSE (IF Head(s) \in bad THEN <<>> ELSE <<Head(s)>>) \o RemoveChars(Tail(s), bad)

AudioWord == <<"a", "u", "d", "i", "o">>

\* safe_filename_from_text trimming before it removes the characters.
safe_filename_trim_first(text, ext) ==
    LET base == RemoveChars(Strip(Prefix(text, 20)), UnsafeChars)
    IN  (IF base = <<>> THEN AudioWord ELSE base) \o <<".">> \o ext

safe_filename_from_text(text, ext) ==
    LET base == Strip(RemoveChars(Prefix(text, 20), UnsafeChars))
    IN  (IF base = <<>> THEN AudioWord ELSE base) \o <<".">> \o ext

\* ---------------------------------------------------------- configuration
Ext == <<"w", "a", "v">>
Mp3 == <<"m", "p", "3">>
DefaultTemplate == <<"t", "t", "s", "_", "{nid}", "_", "{field}", ".", "{ext}">>

DEFAULT_CONFIG ==
    [ tts |-> [provider |-> "dashscope",
               api_key |-> <<>>,
               api_keys |-> [dashscope |-> <<>>, openai |-> <<>>, elevenlabs |-> <<>>],
               model |-> "qwen3-tts-flash",
               voice |-> "Ethan",
               language_type |-> "Chinese",
               ext |-> Ext,
               models |-> [dashscope |-> "qwen3-tts-flash", openai |-> "gpt-4o-mini-tts",
                           elevenlabs |-> "eleven_multilingual_v2"],
               voices |-> [dashscope |-> "Ethan", openai |-> "alloy",
                           elevenlabs |-> "21m00Tcm4TlvDq8ikWAM"],
               exts |-> [dashscope |-> Ext, openai |-> Mp3, elevenlabs |-> Mp3]],
      write_mode |-> "append",
      append_separator |-> <<"<", "b", "r", ">">>,
      filename_template |-> DefaultTemplate,
      batch |-> [skip_if_source_empty |-> TRUE,
                 skip_if_target_has_sound |-> TRUE,
                 overwrite |-> FALSE] ]

\* A dict is a function on its keys; {} is the function with no key.
EmptyDict == <<>>

\* d.update(s) on a copy of d
Update(d, s) ==
    [k \in (DOMAIN d) \cup (DOMAIN s) |-> IF k \in DOMAIN s THEN s[k] ELSE d[k]]

\* cfg.get(key) or {}
SubDict(s, key) == IF key \in DOMAIN s THEN s[key] ELSE EmptyDict

\* get_config with tts taken from the stored configuration as a whole, as a
\* plain dict.update of the top level would.
get_config_shallow(cfg) ==
    [Update(DEFAULT_CONFIG, cfg) EXCEPT
        !.batch = Update(DEFAULT_CONFIG.batch, SubDict(cfg, "batch"))]

\* get_config: the stored configuration over the defaults, tts and batch
\* merged key by key.
get_config(cfg) ==
    [Update(DEFAULT_CONFIG, cfg) EXCEPT
        !.tts = Update(DEFAULT_CONFIG.tts, SubDict(cfg, "tts")),
        !.batch = Update(DEFAULT_CONFIG.batch, SubDict(cfg, "batch"))]

\* What the user has stored: an API key, and in each but the first two one
\* more setting.
StoredKey == [tts |-> [api_key |-> <<"k">>]]

StoredConfigs ==
    { StoredKey,
      EmptyDict,
      [tts |-> [api_key |-> <<"k">>],
       batch |-> [skip_if_source_empty |-> FALSE, skip_if_target_has_sound |-> FALSE]],
      [tts |-> [api_key |-> <<"k">>], batch |-> [overwrite |-> TRUE]],
      [tts |-> [api_key |-> <<"k">>], filename_template |-> <<"{ext}">>],
      [tts |-> [api_key |-> <<"k">>], filename_template |-> <<"{bad}", ".", "{ext}">>],
      [tts |-> [api_key |-> <<"k">>], write_mode |-> "replace"],
      [tts |-> [api_key |-> <<"k">>, provider |-> "openai"]] }

\* The default configuration with an API key stored.
KeyedConfig == [DEFAULT_CONFIG EXCEPT !.tts.api_key = <<"k">>]

\* The merged configurations a run of Spec starts from.
Configs == {get_config(s) : s \in StoredConfigs}

\* The name of the target field (target_field_combo.currentText()).
DstField == <<"A", "u", "d", "i", "o">>

\* ------------------------------------------------------------ host store
OldTag == render_sound_tag(<<"o">>)

\* A record of the host store: ok is FALSE when get_note raises for it.
NoteVals ==
    { [ok |-> TRUE, src |-> <<>>, dst |-> <<>>],
      [ok |-> TRUE, src |-> <<" ">>, dst |-> OldTag],
      [ok |-> TRUE, src |-> <<"h", "i">>, dst |-> <<>>],
      [ok |-> TRUE, src |-> <<"<", "b", ">", "h">>, dst |-> <<"x">> \o OldTag],
      [ok |-> FALSE, src |-> <<>>, dst |-> <<>>] }

\* ----------------------------------------------------------------- state
VARIABLES
    notes,          \* host store: record id -> record
    stored,         \* what mw.addonManager.getConfig returns
    overwrite_chk,  \* the Overwrite check box
    taskman_ok,     \* FALSE when mw.taskman.run_in_background raises
    heap,           \* every job dict created so far, by job number
    jobs,           \* self.jobs: the job numbers in the list, in order
    table,          \* self.table: the displayed rows
    batch_bar,      \* self.batch_bar value
    queue_running,  \* self._queue_running
    mainq,          \* closures posted to the foreground thread, oldest first
    wu,             \* the work unit of each job, by job number
    fg              \* 0, or the job whose work unit the foreground thread runs

vars == <<notes, stored, overwrite_chk, taskman_ok, heap, jobs, table, batch_bar,
          queue_running, mainq, wu, fg>>

Terminal == {"done", "skipped", "error"}

NoResult == [status |-> "none", stored_name |-> <<>>, err |-> "none"]

\* No download was made.
NoDl == [total |-> 0, chunks |-> <<>>, broke |-> -1, status |-> 0, urllib |-> "none"]

\* No provider was handed anything yet.
NoArgs == [api_key |-> <<>>, model |-> "", voice |-> ""]

\* The work unit of a job that has not been dispatched. args is what the
\* provider was handed, asked the name the media sink was asked for, fetched
\* whether bg holds a note object, seen the target field as the skip check
\* read it, audio what the provider returned.
IdleWu ==
    [ pc |-> "idle", sync |-> FALSE, overwrite |-> FALSE, cfg |-> DEFAULT_CONFIG,
      text |-> <<>>, result |-> NoResult, args |-> NoArgs, asked |-> <<>>,
      fetched |-> FALSE, seen |-> <<>>, audio |-> "none", dl |-> NoDl,
      called |-> FALSE, stored |-> FALSE, wrote |-> FALSE, completions |-> 0 ]

\* ------------------------------------------------------------ the table
\* _append_job_row
NewRow(text, state) ==
    [text |-> text, state |-> <<state>>, busy |-> FALSE, value |-> 0]

\* table.item(row, 1) is None for a row the table does not have.
RowValid(tbl, row) == row >= 0 /\ row < Len(tbl)

Clamp(progress) == IF progress < 0 THEN 0 ELSE IF progress > 100 THEN 100 ELSE progress

\* _update_row on a row the table has.
UpdateRow(tbl, row, state, progress, busy) ==
    [tbl EXCEPT ![row + 1] =
        [text |-> @.text, state |-> state, busy |-> busy, value |-> Clamp(progress)]]

\* The batch bar counting only the jobs that are done.
BatchValueDoneOnly(h, js) ==
    LET total == IF Len(js) < 1 THEN 1 ELSE Len(js)
        done == Cardinality({i \in 1..Len(js) : h[js[i]].state = "done"})
    IN  (done * 100) \div total

\* _update_batch_bar
BatchValue(h, js) ==
    LET total == IF Len(js) < 1 THEN 1 ELSE Len(js)
        done == Cardinality({i \in 1..Len(js) : h[js[i]].state \in Terminal})
    IN  (done * 100) \div total

\* -------------------------------------------------------------- enqueue
Ellipsis == <<"...">>
EmptyLabel == <<"(", "e", "m", "p", "t", "y", ")">>

\* The text _enqueue_notes captures for a record.
EnqueueText(nt, nid) == IF nt[nid].ok THEN strip_html(nt[nid].src) ELSE <<>>

Preview(text) == IF Len(text) > 80 THEN Prefix(text, 80) \o Ellipsis ELSE text

\* The loop of _enqueue_notes putting each new job at the head of the list.
RECURSIVE EnqueueLoopPrepend(_, _, _, _, _)
EnqueueLoopPrepend(nt, nids, h, js, tbl) ==
    IF nids = <<>> THEN [heap |-> h, jobs |-> js, table |-> tbl]
    ELSE LET nid == Head(nids)
             text == EnqueueText(nt, nid)
             job == [nid |-> nid, row |-> Len(tbl), state |-> "waiting",
                     progress |-> 0, text |-> text]
         IN  EnqueueLoopPrepend(nt, Tail(nids), Append(h, job), <<Len(h) + 1>> \o js,
                                Append(tbl, NewRow(text, "waiting")))

\* The loop of _enqueue_notes: one job and one row per record id.
RECURSIVE EnqueueLoop(_, _, _, _, _)
EnqueueLoop(nt, nids, h, js, tbl) ==
    IF nids = <<>> THEN [heap |-> h, jobs |-> js, table |-> tbl]
    ELSE LET nid == Head(nids)
             text == EnqueueText(nt, nid)
             preview == Preview(text)
             row == Len(tbl)
             job == [nid |-> nid, row |-> row, state |-> "waiting",
                     progress |-> 0, text |-> text]
         IN  EnqueueLoop(nt, Tail(nids),
                         Append(h, job),
                         Append(js, Len(h) + 1),
                         Append(tbl, NewRow(IF preview = <<>> THEN EmptyLabel ELSE preview,
                                            "waiting")))

\* ----------------------------------------------------------- drive loop
\* The first job of the list in state waiting, 0 when there is none.
RECURSIVE FirstWaitingFrom(_, _, _)
FirstWaitingFrom(h, js, i) ==
    IF i > Len(js) THEN 0
    ELSE IF h[js[i]].state = "waiting" THEN js[i]
    ELSE FirstWaitingFrom(h, js, i + 1)

NextJob(h, js) == FirstWaitingFrom(h, js, 1)

\* The work unit taking the overwrite flag from the configuration, as the
\* check box is set when the dialog opens, and not from the check box.
NewWuFromConfig(sync) ==
    [IdleWu EXCEPT !.pc = "read", !.sync = sync,
                   !.overwrite = get_config(stored).batch.overwrite,
                   !.cfg = get_config(stored)]

\* The work unit _process_job creates: cfg and the overwrite flag are read
\* when the job is dispatched.
NewWu(sync) ==
    [IdleWu EXCEPT !.pc = "read", !.sync = sync, !.overwrite = overwrite_chk,
                   !.cfg = get_config(stored)]

\* _process_job up to and including the dispatch. run_in_background raises
\* when the task manager is unavailable, and the work unit then runs on the
\* foreground thread.
ProcessJobR(h, tbl, w, run, jid) ==
    LET h1 == [h EXCEPT ![jid].state = "processing"]
        row == h[jid].row
    IN  IF ~RowValid(tbl, row)
        THEN [heap |-> h1, table |-> tbl, wu |-> w, running |-> run, fg |-> 0,
              summary |-> FALSE]
        ELSE [heap |-> h1,
              table |-> UpdateRow(tbl, row, <<"processing (generating...)">>, 0, TRUE),
              wu |-> [w EXCEPT ![jid] = NewWu(~taskman_ok)],
              running |-> run,
              fg |-> IF taskman_ok THEN 0 ELSE jid,
              summary |-> FALSE]

\* _process_next; summary tells that the "Queue finished" message is shown.
ProcessNextR(h, js, tbl, w, run) ==
    LET jid == NextJob(h, js)
    IN  IF jid = 0
        THEN [heap |-> h, table |-> tbl, wu |-> w, running |-> FALSE, fg |-> 0,
              summary |-> TRUE]
        ELSE ProcessJobR(h, tbl, w, run, jid)

\* _start_queue without its guard.
StartQueueAlways(h, js, tbl, w, run) == ProcessNextR(h, js, tbl, w, TRUE)

\* _start_queue
StartQueueR(h, js, tbl, w, run) ==
    IF ~run /\ js # <<>>
    THEN ProcessNextR(h, js, tbl, w, TRUE)
    ELSE [heap |-> h, table |-> tbl, wu |-> w, running |-> run, fg |-> 0,
          summary |-> FALSE]

\* _enqueue_notes(nids) followed by _start_queue(): the body of both buttons.
EnqueueAndStart(nids, max) ==
    LET e == EnqueueLoop(notes, nids, heap, jobs, table)
        w1 == wu \o [i \in 1..Len(nids) |-> IdleWu]
        r == StartQueueR(e.heap, e.jobs, e.table, w1, queue_running)
    IN  /\ fg = 0
        /\ Len(heap) + Len(nids) <= max
        /\ heap' = r.heap
        /\ jobs' = e.jobs
        /\ table' = r.table
        /\ batch_bar' = BatchValue(e.heap, e.jobs)
        /\ wu' = r.wu
        /\ queue_running' = r.running
        /\ fg' = r.fg
        /\ UNCHANGED <<notes, stored, overwrite_chk, taskman_ok, mainq>>

\* process_current_note: the first selected record or the reviewer's record.
process_current_note(max) == \E nid \in Nids : EnqueueAndStart(<<nid>>, max)

\* The selections of the browser: distinct record ids, at least two here
\* (process_current_note covers the single record).
Selections ==
    {s \in UNION {[1..n -> Nids] : n \in 2..MaxSel} :
        \A i, j \in 1..Len(s) : i # j => s[i] # s[j]}

\* process_selected_notes
process_selected_notes(max) == \E sel \in Selections : EnqueueAndStart(sel, max)

\* _clear_queue emptying the job list and leaving the rows in the table.
ClearJobsOnly ==
    /\ fg = 0
    /\ jobs' = <<>>
    /\ batch_bar' = 0
    /\ queue_running' = FALSE
    /\ UNCHANGED <<notes, stored, overwrite_chk, taskman_ok, heap, table, mainq, wu, fg>>

\* _clear_queue
ClearQueue ==
    /\ fg = 0
    /\ jobs' = <<>>
    /\ table' = <<>>
    /\ batch_bar' = 0
    /\ queue_running' = FALSE
    /\ UNCHANGED <<notes, stored, overwrite_chk, taskman_ok, heap, mainq, wu, fg>>

\* ------------------------------------------------------------ work unit
Digits == <<"0", "1", "2", "3", "4", "5", "6", "7", "8", "9">>

RECURSIVE IntStr(_)
IntStr(n) ==
    IF n < 10 THEN <<Digits[n + 1]>> ELSE IntStr(n \div 10) \o <<Digits[(n % 10) + 1]>>

\* template.format(nid=..., field=..., ext=...) raises KeyError on a
\* placeholder that is none of the three.
UnknownPlaceholders == {"{bad}"}

FormatOk(template) == \A i \in 1..Len(template) : template[i] \notin UnknownPlaceholders

RECURSIVE Format(_, _, _, _)
Format(template, nid, field, ext) ==
    IF template = <<>> THEN <<>>
    ELSE LET c == Head(template)
             piece == CASE c = "{nid}" -> IntStr(nid)
                        [] c = "{field}" -> field
                        [] c = "{ext}" -> ext
                        [] OTHER -> <<c>>
         IN  piece \o Format(Tail(template), nid, field, ext)

RECURSIVE LStripDots(_)
LStripDots(s) == IF s # <<>> /\ Head(s) = "." THEN LStripDots(Tail(s)) ELSE s

\* The extension of the file name: (tts_cfg.get("ext") or "wav").lstrip(".")
FileExt(c) == LStripDots(IF c.tts.ext = <<>> THEN Ext ELSE c.tts.ext)

\* The preferred name with the fallback for names under 7 characters.
PreferredNameSeven(c, nid, text) ==
    LET ext == FileExt(c)
        template == IF c.filename_template = <<>> THEN DefaultTemplate
                    ELSE c.filename_template
        rendered == Format(template, nid, DstField, ext)
    IN  IF Len(rendered) < 7 THEN safe_filename_from_text(text, ext) ELSE rendered

\* The name the work unit asks the media sink for.
PreferredName(c, nid, text) ==
    LET ext == FileExt(c)
        template == IF c.filename_template = <<>> THEN DefaultTemplate
                    ELSE c.filename_template
        rendered == Format(template, nid, DstField, ext)
    IN  IF Len(rendered) < 8 THEN safe_filename_from_text(text, ext) ELSE rendered

\* What the media sink may answer: the name asked for, another name when the
\* name is taken, or nothing when it refuses.
Renamed(name) == <<"2", "-">> \o name

\* add_media_bytes: the stored name, or nothing (the empty name here).
SinkAnswers(preferred, env) ==
    {n \in {<<>>, preferred, Renamed(preferred)} :
        \/ n = <<>> /\ "refused" \in env.sink
        \/ n = preferred /\ "same" \in env.sink
        \/ n = Renamed(preferred) /\ "renamed" \in env.sink}

\* The field writer appending the tag whether or not the field holds it.
NewFieldValueAlways(c, overwrite, cur_val, tag) ==
    LET write_mode == IF overwrite THEN "replace"
                      ELSE IF c.write_mode = "" THEN "append" ELSE c.write_mode
        sep == IF c.append_separator = <<>> THEN <<" ">> ELSE c.append_separator
    IN  IF write_mode = "replace" THEN tag
        ELSE cur_val \o (IF Strip(cur_val) # <<>> THEN sep ELSE <<>>) \o tag

\* The field writer putting the separator after a blank or empty value too.
NewFieldValueSepAlways(c, overwrite, cur_val, tag) ==
    LET write_mode == IF overwrite THEN "replace"
                      ELSE IF c.write_mode = "" THEN "append" ELSE c.write_mode
        sep == IF c.append_separator = <<>> THEN <<" ">> ELSE c.append_separator
    IN  IF write_mode = "replace" THEN tag
        ELSE IF Contains(cur_val, tag) THEN cur_val
        ELSE cur_val \o sep \o tag

\* The value the work unit writes to the target field.
NewFieldValue(c, overwrite, cur_val, tag) ==
    LET write_mode == IF overwrite THEN "replace"
                      ELSE IF c.write_mode = "" THEN "append" ELSE c.write_mode
        sep == IF c.append_separator = <<>> THEN <<" ">> ELSE c.append_separator
    IN  IF write_mode = "replace" THEN tag
        ELSE IF Contains(cur_val, tag) THEN cur_val
        ELSE cur_val \o (IF Strip(cur_val) # <<>> THEN sep ELSE <<>>) \o tag

\* The results synthesize_tts_bytes may give: audio is "bytes", "empty" or
\* "none", progress the values passed to the download callback, in order, and
\* net tells whether a provider was called.
KeyError == "API key (tts.api_key) is not set in add-on config."

\* The key, model and voice a provider takes from the configuration.
ProviderArgs(c) ==
    [ api_key |-> c.tts.api_key,
      model |-> IF c.tts.model # "" THEN c.tts.model
                ELSE IF c.tts.provider = "openai" THEN "tts-1" ELSE "qwen3-tts-flash",
      voice |-> IF c.tts.voice # "" THEN c.tts.voice
                ELSE IF c.tts.provider = "openai" THEN "alloy" ELSE "Cherry" ]

\* ------------------------------------------------------------- download
\* What the network serves for the audio URL: the Content-Length header (0
\* when absent), the sizes of the chunks iter_content yields, the number of
\* chunks after which requests raises (-1 when it does not; 0 covers a failed
\* import), the HTTP status, and whether the urllib fallback succeeds, fails
\* with an exception that has a message ("fail") or fails with one whose
\* str() is empty ("fail_silent").
DlTotals == {0, 2, 3}
DlChunks == {<<>>, <<2>>, <<1, 1>>, <<2, 2>>}

Downloads ==
    {d \in [total : DlTotals, chunks : DlChunks, broke : {-1, 0, 1},
            status : {200, 404}, urllib : {"ok", "fail", "fail_silent", "none"}] :
        /\ d.broke <= Len(d.chunks)
        /\ (d.broke = -1) = (d.urllib = "none")
        /\ d.status = 404 => (d.broke = -1 /\ d.chunks = <<>> /\ d.total = 0)}

\* The downloads of the job-queue specifications: the header absent or
\* matching one chunk, an empty body, and a failure of both transports.
BasicDownloads ==
    { [total |-> 0, chunks |-> <<2>>, broke |-> -1, status |-> 200, urllib |-> "none"],
      [total |-> 2, chunks |-> <<2>>, broke |-> -1, status |-> 200, urllib |-> "none"],
      [total |-> 0, chunks |-> <<>>, broke |-> -1, status |-> 200, urllib |-> "none"],
      [total |-> 0, chunks |-> <<>>, broke |-> 0, status |-> 200, urllib |-> "fail"] }

RECURSIVE SumTo(_, _)
SumTo(chunks, n) == IF n = 0 THEN 0 ELSE SumTo(chunks, n - 1) + chunks[n]

Min(a, b) == IF a < b THEN a ELSE b

\* The values the loop over iter_content passes to on_progress for the first
\* n chunks: min(int(downloaded * 100 / total), 100), when total is not 0.
LoopProgress(d, n) ==
    IF d.total = 0 THEN <<>>
    ELSE [i \in 1..n |-> Min((SumTo(d.chunks, i) * 100) \div d.total, 100)]

Payload(d) == IF SumTo(d.chunks, Len(d.chunks)) > 0 THEN "bytes" ELSE "empty"

\* http_get_bytes_stream: data, error and the values passed to on_progress.
http_get_bytes_stream(d) ==
    IF d.broke = -1
    THEN IF d.status # 200
         THEN [data |-> "none", err |-> "HTTP", progress |-> <<>>]
         ELSE [data |-> Payload(d), err |-> "none",
               progress |-> LoopProgress(d, Len(d.chunks))
                               \o (IF d.total # 0 THEN <<100>> ELSE <<>>)]
    ELSE IF d.urllib = "ok"
         THEN [data |-> Payload(d), err |-> "none",
               progress |-> LoopProgress(d, d.broke) \o <<100>>]
         ELSE [data |-> "none", err |-> IF d.urllib = "fail" THEN "urllib" ELSE "",
               progress |-> LoopProgress(d, d.broke)]

\* QwenTTSProvider.synthesize once the API answered with an audio URL.
\* 'if err:' is false for the empty string.
QwenDownload(d) ==
    LET r == http_get_bytes_stream(d)
    IN  IF r.err \notin {"none", ""}
        THEN [audio |-> "none", err |-> "Audio download error", progress |-> r.progress,
              net |-> TRUE, dl |-> d]
        ELSE [audio |-> r.data, err |-> "none", progress |-> r.progress,
              net |-> TRUE, dl |-> d]

\* OpenAITTSProvider.synthesize reporting 100 before the request is made.
OpenAIOutcomesEarly ==
    { [audio |-> "none", err |-> "OpenAI error", progress |-> <<100>>, net |-> TRUE,
       dl |-> NoDl],
      [audio |-> "bytes", err |-> "none", progress |-> <<100>>, net |-> TRUE, dl |-> NoDl],
      [audio |-> "empty", err |-> "none", progress |-> <<100>>, net |-> TRUE, dl |-> NoDl] }

\* OpenAITTSProvider.synthesize past the key check: the request raises, or
\* the content is returned after one on_download_progress(100).
OpenAIOutcomes ==
    { [audio |-> "none", err |-> "OpenAI error", progress |-> <<>>, net |-> TRUE,
       dl |-> NoDl],
      [audio |-> "bytes", err |-> "none", progress |-> <<100>>, net |-> TRUE, dl |-> NoDl],
      [audio |-> "empty", err |-> "none", progress |-> <<100>>, net |-> TRUE, dl |-> NoDl] }

\* The provider past the key check.
CallOutcomes(c) ==
    IF c.tts.provider = "openai"
    THEN OpenAIOutcomes
    ELSE {[audio |-> "none", err |-> "DashScope error", progress |-> <<>>, net |-> TRUE,
           dl |-> NoDl]}
         \cup {QwenDownload(d) : d \in Downloads}

\* The provider called without the test of the key.
SynthOutcomesNoKeyCheck(c) == CallOutcomes(c)

\* synthesize_tts_bytes
SynthOutcomes(c) ==
    IF ProviderArgs(c).api_key = <<>>
    THEN {[audio |-> "none", err |-> KeyError, progress |-> <<>>, net |-> FALSE,
           dl |-> NoDl]}
    ELSE CallOutcomes(c)

Closure(op, jid, pct) == [op |-> op, jid |-> jid, pct |-> pct]

\* on_done putting a failed job back in line, as an automatic retry would.
OutcomeStateRetry(status) ==
    CASE status = "ok" -> "done"
      [] status \in {"skip_empty", "skip_has_sound"} -> "skipped"
      [] OTHER -> "waiting"

\* The job state by outcome, with no_audio counted among the skips.
OutcomeStateNoAudioSkipped(status) ==
    CASE status = "ok" -> "done"
      [] status \in {"skip_empty", "skip_has_sound", "no_audio"} -> "skipped"
      [] OTHER -> "error"

\* The state and progress on_done gives the job: progress is left alone on
\* no_audio and on error.
OutcomeState(status) ==
    CASE status = "ok" -> "done"
      [] status \in {"skip_empty", "skip_has_sound"} -> "skipped"
      [] OTHER -> "error"

OutcomeLabel(res) ==
    CASE res.status = "ok" -> <<"done">>
      [] res.status = "skip_empty" -> <<"skipped (empty)">>
      [] res.status = "skip_has_sound" -> <<"skipped (already has sound)">>
      [] res.status = "no_audio" -> <<"no audio">>
      [] OTHER -> <<"error: ", res.err>>

\* on_done finding its job by record id: every job of that record gets the
\* outcome.
OnDoneByNid(h, js, tbl, bb, mq, jid, res) ==
    LET st == OutcomeState(res.status)
        h1 == [k \in 1..Len(h) |->
                  IF h[k].nid = h[jid].nid
                  THEN [h[k] EXCEPT !.state = st,
                                    !.progress = IF res.status = "ok" THEN 100
                                                 ELSE IF st = "skipped" THEN 0 ELSE @]
                  ELSE h[k]]
        row == h[jid].row
    IN  IF ~RowValid(tbl, row)
        THEN [heap |-> h1, table |-> tbl, batch_bar |-> bb, mainq |-> mq]
        ELSE [heap |-> h1,
              table |-> UpdateRow(tbl, row, OutcomeLabel(res),
                                  IF res.status = "ok" THEN 100 ELSE 0, FALSE),
              batch_bar |-> BatchValue(h1, js),
              mainq |-> Append(mq, Closure("process_next", 0, 0))]

\* on_done without the request for the next drive step.
OnDoneNoNext(h, js, tbl, bb, mq, jid, res) ==
    LET st == OutcomeState(res.status)
        h1 == [h EXCEPT ![jid].state = st]
    IN  [heap |-> h1, table |-> tbl, batch_bar |-> BatchValue(h1, js), mainq |-> mq]

\* on_done: the job is the one the closure holds, in the list or not; the row
\* update raises when the table has no such row, and the rest is then skipped.
OnDoneR(h, js, tbl, bb, mq, jid, res) ==
    LET st == OutcomeState(res.status)
        h1 == [h EXCEPT ![jid].state = st,
                        ![jid].progress = IF res.status = "ok" THEN 100
                                          ELSE IF st = "skipped" THEN 0 ELSE @]
        row == h[jid].row
    IN  IF ~RowValid(tbl, row)
        THEN [heap |-> h1, table |-> tbl, batch_bar |-> bb, mainq |-> mq]
        ELSE [heap |-> h1,
              table |-> UpdateRow(tbl, row, OutcomeLabel(res),
                                  IF res.status = "ok" THEN 100 ELSE 0, FALSE),
              batch_bar |-> BatchValue(h1, js),
              mainq |-> Append(mq, Closure("process_next", 0, 0))]

\* The work unit once on_done has run: the closures are dropped, and what is
\* kept is the outcome and what the unit did to the collaborators.
Completed(u, res) ==
    [IdleWu EXCEPT !.pc = "completed", !.sync = u.sync, !.text = u.text,
                   !.result = [NoResult EXCEPT !.status = res.status,
                                               !.stored_name = res.stored_name],
                   !.args = u.args, !.asked = u.asked,
                   !.fetched = u.fetched, !.seen = u.seen, !.audio = u.audio,
                   !.called = u.called, !.stored = u.stored, !.wrote = u.wrote,
                   !.completions = u.completions + 1]

\* The end of a work unit calling on_done where it stands, on the pool
\* thread too.
FinishInPlace(jid, w1, nt, post, res) ==
    LET r == OnDoneR(heap, jobs, table, batch_bar, mainq \o post, jid, res)
    IN  /\ wu' = [w1 EXCEPT ![jid] = Completed(w1[jid], res)]
        /\ heap' = r.heap
        /\ table' = r.table
        /\ batch_bar' = r.batch_bar
        /\ mainq' = r.mainq
        /\ fg' = 0
        /\ notes' = nt
        /\ UNCHANGED <<stored, overwrite_chk, taskman_ok, jobs, queue_running>>

\* The end of a work unit with result res, after posting the closures post.
\* Dispatched in the background, its result is posted to the foreground
\* thread; run by the foreground thread, on_done is called in place.
Finish(jid, w1, nt, post, res) ==
    IF wu[jid].sync
    THEN LET r == OnDoneR(heap, jobs, table, batch_bar, mainq \o post, jid, res)
         IN  /\ wu' = [w1 EXCEPT ![jid] = Completed(w1[jid], res)]
             /\ heap' = r.heap
             /\ table' = r.table
             /\ batch_bar' = r.batch_bar
             /\ mainq' = r.mainq
             /\ fg' = 0
             /\ notes' = nt
             /\ UNCHANGED <<stored, overwrite_chk, taskman_ok, jobs, queue_running>>
    ELSE /\ wu' = [w1 EXCEPT ![jid].pc = "posted", ![jid].result = res]
         /\ mainq' = (mainq \o post) \o <<Closure("on_done", jid, 0)>>
         /\ notes' = nt
         /\ UNCHANGED <<stored, overwrite_chk, taskman_ok, heap, jobs, table, batch_bar,
                        queue_running, fg>>

\* An exception leaves the work unit. The Future carries it to on_done when
\* the unit was dispatched; in the foreground it leaves _process_job.
Raise(jid, err) ==
    IF wu[jid].sync
    THEN /\ wu' = [wu EXCEPT ![jid].pc = "aborted"]
         /\ fg' = 0
         /\ UNCHANGED <<notes, stored, overwrite_chk, taskman_ok, heap, jobs, table,
                        batch_bar, queue_running, mainq>>
    ELSE Finish(jid, wu, notes, <<>>, [status |-> "error", stored_name |-> <<>>, err |-> err])

\* The result tuple of bg with a refusal of the media sink passed off as ok.
ResultOkOnRefusal(status, name, err) ==
    [status |-> IF err = "failed to store media" THEN "ok" ELSE status,
     stored_name |-> name, err |-> err]

\* The tuple bg returns: status, stored name, message.
Result(status, name, err) == [status |-> status, stored_name |-> name, err |-> err]

SoundMarker == <<"[sound:">>

\* The skip conditions without the strip() and with a marker test at the
\* start of the field only.
SkipEmptyNoStrip(text, c) == text = <<>> /\ c.batch.skip_if_source_empty

SkipHasSoundPrefix(overwrite, c, cur_val) ==
    ~overwrite /\ c.batch.skip_if_target_has_sound /\ Prefix(cur_val, 1) = SoundMarker

\* The marker test applied whether or not Overwrite is checked.
SkipHasSoundAlways(overwrite, c, cur_val) ==
    c.batch.skip_if_target_has_sound /\ Contains(cur_val, SoundMarker)

\* The two skip conditions of bg.
SkipEmpty(text, c) == Strip(text) = <<>> /\ c.batch.skip_if_source_empty

SkipHasSound(overwrite, c, cur_val) ==
    ~overwrite /\ c.batch.skip_if_target_has_sound /\ Contains(cur_val, SoundMarker)

\* The text bg works on, taken from the job whatever the record holds.
ReadTextSnapshot(note, job) == job.text

\* The text bg works on: the source field of the record, or the text the job
\* was enqueued with when the record cannot be fetched.
ReadText(note, job) == IF note.ok THEN note.src ELSE job.text

\* bg, first part: re-read the source text and the target field, and skip.
BgRead(jid) ==
    /\ wu[jid].pc = "read"
    /\ LET job == heap[jid]
           c == wu[jid].cfg
           note == notes[job.nid]
           text == ReadText(note, job)
           cur_val == IF note.ok THEN note.dst ELSE <<>>
           w0 == [wu EXCEPT ![jid].text = text, ![jid].fetched = note.ok,
                            ![jid].seen = cur_val]
       IN  IF SkipEmpty(text, c)
           THEN Finish(jid, w0, notes, <<>>,
                       Result("skip_empty", <<>>, "source empty"))
           ELSE IF SkipHasSound(wu[jid].overwrite, c, cur_val)
           THEN Finish(jid, w0, notes, <<>>,
                       Result("skip_has_sound", <<>>, "already has sound"))
           ELSE /\ wu' = [w0 EXCEPT ![jid].pc = "synth"]
                /\ UNCHANGED <<notes, stored, overwrite_chk, taskman_ok, heap, jobs, table,
                               batch_bar, queue_running, mainq, fg>>

\* bg, second part: synthesize_tts_bytes with the download progress callback.
BgSynth(jid, env) ==
    /\ wu[jid].pc = "synth"
    /\ \E o \in SynthOutcomes(wu[jid].cfg) \cap env.synth :
         LET post == [i \in 1..Len(o.progress) |-> Closure("progress", jid, o.progress[i])]
             w1 == [wu EXCEPT ![jid].called = o.net, ![jid].audio = o.audio,
                              ![jid].dl = o.dl,
                              ![jid].args = ProviderArgs(wu[jid].cfg)]
         IN  IF o.err # "none"
             THEN Finish(jid, w1, notes, post, Result("error", <<>>, o.err))
             ELSE IF o.audio # "bytes"
             THEN Finish(jid, w1, notes, post, Result("no_audio", <<>>, "no audio returned"))
             ELSE /\ wu' = [w1 EXCEPT ![jid].pc = "store"]
                  /\ mainq' = mainq \o post
                  /\ UNCHANGED <<notes, stored, overwrite_chk, taskman_ok, heap, jobs, table,
                                 batch_bar, queue_running, fg>>

\* The base of the new value taken from the read of the skip check.
WriteBaseCached(note, u) == u.seen

\* The base of the new value: the target field as re-read before the write.
WriteBase(note, u) == IF note.ok THEN note.dst ELSE <<>>

\* bg, third part: name and store the media, re-read the target field, write
\* the record. update_note swallows every failure of the host, so the record
\* may stay unpersisted (persisted = FALSE) while the result is ok. When the
\* record is gone, the write goes to the note object of an earlier read, if
\* there is one, and is lost; with no note object the assignment raises.
BgStore(jid, env) ==
    /\ wu[jid].pc = "store"
    /\ LET job == heap[jid]
           c == wu[jid].cfg
           text == wu[jid].text
           template == IF c.filename_template = <<>> THEN DefaultTemplate
                       ELSE c.filename_template
       IN  IF ~FormatOk(template)
           THEN Raise(jid, "'bad'")
           ELSE \E stored_name \in SinkAnswers(PreferredName(c, job.nid, text), env) :
                  IF stored_name = <<>>
                  THEN Finish(jid, [wu EXCEPT ![jid].asked = PreferredName(c, job.nid, text)],
                              notes, <<>>, Result("error", <<>>, "failed to store media"))
                  ELSE LET note == notes[job.nid]
                           tag == render_sound_tag(stored_name)
                           cur_val == WriteBase(note, wu[jid])
                           new_val == NewFieldValue(c, wu[jid].overwrite, cur_val, tag)
                           w1 == [wu EXCEPT ![jid].stored = TRUE,
                                            ![jid].asked = PreferredName(c, job.nid, text)]
                       IN  IF ~note.ok /\ ~wu[jid].fetched
                           THEN Finish(jid, w1, notes, <<>>,
                                       Result("error", <<>>, "write failed"))
                           ELSE IF ~note.ok
                           THEN Finish(jid, w1, notes, <<>>,
                                       Result("ok", stored_name, "none"))
                           ELSE \E persisted \in env.persist :
                                  Finish(jid, [w1 EXCEPT ![jid].wrote = persisted],
                                         IF persisted
                                         THEN [notes EXCEPT ![job.nid].dst = new_val]
                                         ELSE notes,
                                         <<>>, Result("ok", stored_name, "none"))

\* ------------------------------------------- closures on the foreground
\* The closure run_in_background posts: on_done with the finished Future.
MainOnDone ==
    /\ fg = 0
    /\ mainq # <<>>
    /\ Head(mainq).op = "on_done"
    /\ LET jid == Head(mainq).jid
           r == OnDoneR(heap, jobs, table, batch_bar, Tail(mainq), jid, wu[jid].result)
       IN  /\ heap' = r.heap
           /\ table' = r.table
           /\ batch_bar' = r.batch_bar
           /\ mainq' = r.mainq
           /\ wu' = [wu EXCEPT ![jid] = Completed(wu[jid], wu[jid].result)]
    /\ UNCHANGED <<notes, stored, overwrite_chk, taskman_ok, jobs, queue_running, fg>>

\* The closure on_done posts: _process_next.
MainProcessNext ==
    /\ fg = 0
    /\ mainq # <<>>
    /\ Head(mainq).op = "process_next"
    /\ LET r == ProcessNextR(heap, jobs, table, wu, queue_running)
       IN  /\ heap' = r.heap
           /\ table' = r.table
           /\ wu' = r.wu
           /\ queue_running' = r.running
           /\ fg' = r.fg
    /\ mainq' = Tail(mainq)
    /\ UNCHANGED <<notes, stored, overwrite_chk, taskman_ok, jobs, batch_bar>>

\* The closure on_dl posts: the row update of a download progress report.
MainProgress ==
    /\ fg = 0
    /\ mainq # <<>>
    /\ Head(mainq).op = "progress"
    /\ LET row == heap[Head(mainq).jid].row
       IN  table' = IF RowValid(table, row)
                    THEN UpdateRow(table, row, <<"processing (downloading...)">>,
                                   Head(mainq).pct, FALSE)
                    ELSE table
    /\ mainq' = Tail(mainq)
    /\ UNCHANGED <<notes, stored, overwrite_chk, taskman_ok, heap, jobs, batch_bar,
                   queue_running, wu, fg>>

\* ---------------------------------------------------------- specification
Init ==
    /\ notes \in [Nids -> NoteVals]
    /\ stored \in StoredConfigs
    /\ overwrite_chk = get_config(stored).batch.overwrite
    /\ taskman_ok \in BOOLEAN
    /\ heap = <<>>
    /\ jobs = <<>>
    /\ table = <<>>
    /\ batch_bar = 0
    /\ queue_running = FALSE
    /\ mainq = <<>>
    /\ wu = <<>>
    /\ fg = 0

\* The answers of the collaborators (provider, media sink, record store).
\* The outcomes of the job-queue specifications.
AllSynth ==
    {o \in UNION {SynthOutcomes(c) : c \in Configs} : o.dl \in BasicDownloads \cup {NoDl}}

FullEnv == [synth |-> AllSynth, sink |-> {"same", "renamed", "refused"},
            persist |-> BOOLEAN]

Bg(env) ==
    \E jid \in 1..Len(wu) : BgRead(jid) \/ BgSynth(jid, env) \/ BgStore(jid, env)

\* Spec: every configuration and record of Configs and NoteVals, every answer
\* of the collaborators, at most MaxJobs jobs.
Next ==
    \/ process_current_note(MaxJobs)
    \/ process_selected_notes(MaxJobs)
    \/ ClearQueue
    \/ Bg(FullEnv)
    \/ MainOnDone
    \/ MainProcessNext
    \/ MainProgress

Spec == Init /\ [][Next]_vars

\* SpecQueue: longer queues (QueueJobs jobs) over fewer inputs: blank or plain
\* source text, a template that renders or not, a provider that fails or
\* delivers with progress reports, a media sink and a store that accept.
QueueNoteVals ==
    { [ok |-> TRUE, src |-> <<>>, dst |-> <<>>],
      [ok |-> TRUE, src |-> <<"h", "i">>, dst |-> <<>>] }

QueueStored ==
    { StoredKey,
      [tts |-> [api_key |-> <<"k">>], filename_template |-> <<"{bad}", ".", "{ext}">>] }

QueueConfigs == {get_config(s) : s \in QueueStored}

QueueEnv ==
    [synth |-> {o \in AllSynth : o.progress = <<100, 100>> \/ o.err = "DashScope error"},
     sink |-> {"same"}, persist |-> {TRUE}]

InitQueue ==
    /\ notes \in [Nids -> QueueNoteVals]
    /\ stored \in QueueStored
    /\ overwrite_chk = get_config(stored).batch.overwrite
    /\ taskman_ok \in BOOLEAN
    /\ heap = <<>>
    /\ jobs = <<>>
    /\ table = <<>>
    /\ batch_bar = 0
    /\ queue_running = FALSE
    /\ mainq = <<>>
    /\ wu = <<>>
    /\ fg = 0

NextQueue ==
    \/ process_current_note(QueueJobs)
    \/ process_selected_notes(QueueJobs)
    \/ ClearQueue
    \/ Bg(QueueEnv)
    \/ MainOnDone
    \/ MainProcessNext
    \/ MainProgress

SpecQueue == InitQueue /\ [][NextQueue]_vars

\* SpecLive: the runs of SpecQueue in which Clear is never pressed, every
\* dispatched work unit runs to its end (the pool thread is scheduled), and the
\* foreground thread runs every closure posted to it (the Qt event loop).
NextLive ==
    \/ process_current_note(QueueJobs)
    \/ process_selected_notes(QueueJobs)
    \/ Bg(QueueEnv)
    \/ MainOnDone
    \/ MainProcessNext
    \/ MainProgress

SpecLive ==
    /\ InitQueue
    /\ [][NextLive]_vars
    /\ WF_vars(Bg(QueueEnv))
    /\ WF_vars(MainOnDone)
    /\ WF_vars(MainProcessNext)
    /\ WF_vars(MainProgress)

\* SpecWrite: the field writer, the file name and the configuration over many
\* inputs: stored configurations that set one or two keys, target fields that
\* are empty, blank, plain or already hold a tag. Clear is not pressed, and
\* the record store persists what it is given.
WriteTag == render_sound_tag(Format(DefaultTemplate, 1, DstField, Ext))

WriteNoteVals ==
    { [ok |-> TRUE, src |-> <<"h", "i">>, dst |-> <<>>],
      [ok |-> TRUE, src |-> <<"h", "i">>, dst |-> <<" ">>],
      [ok |-> TRUE, src |-> <<"h", "i">>, dst |-> <<"x">>],
      [ok |-> TRUE, src |-> <<"<", "b", ">", "h">>, dst |-> <<"x">> \o WriteTag],
      [ok |-> TRUE, src |-> <<" ">>, dst |-> OldTag] }

WriteStored ==
    { [tts |-> [api_key |-> <<"k">>], batch |-> [skip_if_target_has_sound |-> FALSE]],
      [tts |-> [api_key |-> <<"k">>], batch |-> [skip_if_target_has_sound |-> FALSE],
       append_separator |-> <<>>],
      [tts |-> [api_key |-> <<"k">>], batch |-> [overwrite |-> TRUE]],
      [tts |-> [api_key |-> <<"k">>], batch |-> [overwrite |-> TRUE],
       write_mode |-> "replace"],
      [tts |-> [api_key |-> <<"k">>], write_mode |-> "replace"],
      [tts |-> [api_key |-> <<"k">>], filename_template |-> <<"{ext}">>],
      [tts |-> [api_key |-> <<"k">>],
       filename_template |-> <<"a", "_", "{nid}", ".", "{ext}">>],
      [tts |-> [api_key |-> <<"k">>],
       filename_template |-> <<"a", "b", "_", "{nid}", ".", "{ext}">>],
      [tts |-> [voice |-> "X"]],
      [tts |-> [api_keys |-> [dashscope |-> <<"p">>]]],
      [tts |-> [api_key |-> <<"k">>, provider |-> "openai"]] }

WriteEnv == [synth |-> AllSynth, sink |-> {"same", "renamed", "refused"},
             persist |-> {TRUE}]

InitWrite ==
    /\ notes \in [Nids -> WriteNoteVals]
    /\ stored \in WriteStored
    /\ overwrite_chk = get_config(stored).batch.overwrite
    /\ taskman_ok \in BOOLEAN
    /\ heap = <<>>
    /\ jobs = <<>>
    /\ table = <<>>
    /\ batch_bar = 0
    /\ queue_running = FALSE
    /\ mainq = <<>>
    /\ wu = <<>>
    /\ fg = 0

NextWrite ==
    \/ process_current_note(MaxJobs)
    \/ process_selected_notes(MaxJobs)
    \/ Bg(WriteEnv)
    \/ MainOnDone
    \/ MainProcessNext
    \/ MainProgress

SpecWrite == InitWrite /\ [][NextWrite]_vars

\* SpecScenario: three records selected in the browser and processed in one
\* run: the first with a blank source, the second with a tag in its target,
\* the third with an empty target; default skip settings, Overwrite unchecked,
\* a provider that delivers, a media sink and a record store that accept.
\* Scheduling as in SpecLive.
OldWav == render_sound_tag(<<"o", "l", "d", ".", "w", "a", "v">>)

ScenarioNids == 1..3

ScenarioNotes ==
    {f \in [ScenarioNids -> [ok : {TRUE},
                             src : {<<>>, <<" ">>, <<"h", "i">>, <<"<", "b", ">", "h">>},
                             dst : {<<>>, OldWav, <<"x">> \o OldWav}]] :
        /\ Strip(f[1].src) = <<>>
        /\ Strip(f[2].src) # <<>> /\ Contains(f[2].dst, OldWav)
        /\ Strip(f[3].src) # <<>> /\ f[3].dst = <<>>}

ScenarioStored ==
    { StoredKey,
      [tts |-> [api_key |-> <<"k">>], filename_template |-> <<"{ext}">>],
      [tts |-> [api_key |-> <<"k">>], write_mode |-> "replace"],
      [tts |-> [api_key |-> <<"k">>, provider |-> "openai"]] }

ScenarioEnv ==
    [synth |-> {o \in AllSynth : o.audio = "bytes"}, sink |-> {"same", "renamed"},
     persist |-> {TRUE}]

InitScenario ==
    /\ notes \in ScenarioNotes
    /\ stored \in ScenarioStored
    /\ overwrite_chk = get_config(stored).batch.overwrite
    /\ taskman_ok \in BOOLEAN
    /\ heap = <<>>
    /\ jobs = <<>>
    /\ table = <<>>
    /\ batch_bar = 0
    /\ queue_running = FALSE
    /\ mainq = <<>>
    /\ wu = <<>>
    /\ fg = 0

\* process_selected_notes with the three records selected, in order.
ScenarioSelect == EnqueueAndStart(<<1, 2, 3>>, ScenarioJobs)

NextScenario ==
    \/ ScenarioSelect
    \/ Bg(ScenarioEnv)
    \/ MainOnDone
    \/ MainProcessNext
    \/ MainProgress

SpecScenario ==
    /\ InitScenario
    /\ [][NextScenario]_vars
    /\ WF_vars(Bg(ScenarioEnv))
    /\ WF_vars(MainOnDone)
    /\ WF_vars(MainProcessNext)
    /\ WF_vars(MainProgress)

\* SpecEdit: the records change while jobs wait and run. Another party (the
\* editor, a sync) rewrites a record or deletes it at any moment; a deleted
\* record stays deleted. Clear is not pressed, the provider delivers or
\* fails, the media sink and the record store accept.
EditInitVals ==
    { [ok |-> TRUE, src |-> <<"<", "b", ">", "h">>, dst |-> <<>>],
      [ok |-> TRUE, src |-> <<>>, dst |-> <<"x">>] }

EditNoteVals ==
    { [ok |-> TRUE, src |-> <<"h", "i">>, dst |-> <<"e">>],
      [ok |-> TRUE, src |-> <<>>, dst |-> <<>>],
      [ok |-> FALSE, src |-> <<>>, dst |-> <<>>] }

EditStored ==
    { StoredKey,
      [tts |-> [api_key |-> <<"k">>], batch |-> [skip_if_source_empty |-> FALSE]] }

EditEnv ==
    [synth |-> {o \in AllSynth : o.progress = <<100, 100>> \/ o.err = "DashScope error"},
     sink |-> {"same"}, persist |-> {TRUE}]

\* A change of a record by another party.
ExternalEdit ==
    /\ \E nid \in Nids, v \in EditNoteVals :
          /\ notes[nid].ok
          /\ notes[nid] # v
          /\ notes' = [notes EXCEPT ![nid] = v]
    /\ UNCHANGED <<stored, overwrite_chk, taskman_ok, heap, jobs, table, batch_bar,
                   queue_running, mainq, wu, fg>>

InitEdit ==
    /\ notes \in [Nids -> EditInitVals]
    /\ stored \in EditStored
    /\ overwrite_chk = get_config(stored).batch.overwrite
    /\ taskman_ok \in BOOLEAN
    /\ heap = <<>>
    /\ jobs = <<>>
    /\ table = <<>>
    /\ batch_bar = 0
    /\ queue_running = FALSE
    /\ mainq = <<>>
    /\ wu = <<>>
    /\ fg = 0

NextEdit ==
    \/ process_current_note(MaxJobs)
    \/ process_selected_notes(MaxJobs)
    \/ Bg(EditEnv)
    \/ MainOnDone
    \/ MainProcessNext
    \/ MainProgress
    \/ ExternalEdit

SpecEdit == InitEdit /\ [][NextEdit]_vars

\* SpecDownload: the DashScope provider over every download of Downloads,
\* with an API key stored, records with text to speak and a media sink that
\* accepts. run_in_background is available, and Clear is not pressed.
DownloadNoteVals == {[ok |-> TRUE, src |-> <<"h", "i">>, dst |-> <<>>]}

DownloadEnv ==
    [synth |-> SynthOutcomes(get_config(StoredKey)), sink |-> {"same"}, persist |-> {TRUE}]

InitDownload ==
    /\ notes \in [Nids -> DownloadNoteVals]
    /\ stored = StoredKey
    /\ overwrite_chk = get_config(stored).batch.overwrite
    /\ taskman_ok = TRUE
    /\ heap = <<>>
    /\ jobs = <<>>
    /\ table = <<>>
    /\ batch_bar = 0
    /\ queue_running = FALSE
    /\ mainq = <<>>
    /\ wu = <<>>
    /\ fg = 0

NextDownload ==
    \/ process_current_note(MaxJobs)
    \/ process_selected_notes(MaxJobs)
    \/ Bg(DownloadEnv)
    \/ MainOnDone
    \/ MainProcessNext
    \/ MainProgress

SpecDownload == InitDownload /\ [][NextDownload]_vars

\* SpecSettings: the user changes the Overwrite check box and the stored
\* configuration (provider, voice) while jobs wait and run. Every record has
\* text to speak and content in its target field, and synthesis succeeds.
\* Clear is not pressed.
SettingsNoteVals == {[ok |-> TRUE, src |-> <<"h", "i">>, dst |-> <<"x">>]}

SettingsStored ==
    { StoredKey,
      [tts |-> [api_key |-> <<"k">>, voice |-> "X"]],
      [tts |-> [api_key |-> <<"k">>, provider |-> "openai"]] }

SettingsEnv ==
    [synth |-> {o \in AllSynth : o.audio = "bytes" /\ o.progress # <<>>},
     sink |-> {"same"}, persist |-> {TRUE}]

\* The user clicks the Overwrite check box.
ToggleOverwrite ==
    /\ fg = 0
    /\ overwrite_chk' = ~overwrite_chk
    /\ UNCHANGED <<notes, stored, taskman_ok, heap, jobs, table, batch_bar,
                   queue_running, mainq, wu, fg>>

\* _on_provider_changed, _on_voice_changed: the stored configuration is
\* written with another provider or voice.
StoreConfig ==
    /\ fg = 0
    /\ \E s \in SettingsStored : s # stored /\ stored' = s
    /\ UNCHANGED <<notes, overwrite_chk, taskman_ok, heap, jobs, table, batch_bar,
                   queue_running, mainq, wu, fg>>

InitSettings ==
    /\ notes \in [Nids -> SettingsNoteVals]
    /\ stored \in SettingsStored
    /\ overwrite_chk = get_config(stored).batch.overwrite
    /\ taskman_ok \in BOOLEAN
    /\ heap = <<>>
    /\ jobs = <<>>
    /\ table = <<>>
    /\ batch_bar = 0
    /\ queue_running = FALSE
    /\ mainq = <<>>
    /\ wu = <<>>
    /\ fg = 0

NextSettings ==
    \/ process_current_note(MaxJobs)
    \/ process_selected_notes(MaxJobs)
    \/ Bg(SettingsEnv)
    \/ MainOnDone
    \/ MainProcessNext
    \/ MainProgress
    \/ ToggleOverwrite
    \/ StoreConfig

SpecSettings == InitSettings /\ [][NextSettings]_vars

\* SpecText: the two text functions over source fields with markup, encoded
\* markup, unsafe characters, surrounding blanks and more than 20 characters.
\* The file name template is {ext}, which renders too short, so that every
\* job asks the media sink for the safe file name of its text; synthesis
\* succeeds. Clear is not pressed.
LongText == [i \in 1..19 |-> "a"] \o <<" ", ":", "z">>

TextSources ==
    { <<>>,
      <<"h", "i">>,
      <<"<", "b", ">", " ", "h">>,
      <<"&lt;", "b", "&gt;", "h">>,
      <<" ", "a", "/", "b", "\\", " ">>,
      <<"?", "*">>,
      <<":", " ", "h">>,
      <<"<", "b">>,
      LongText }

TextNoteVals == {[ok |-> TRUE, src |-> t, dst |-> <<>>] : t \in TextSources}

TextStored == [tts |-> [api_key |-> <<"k">>], filename_template |-> <<"{ext}">>]

TextEnv ==
    [synth |-> {o \in AllSynth : o.audio = "bytes"},
     sink |-> {"same"}, persist |-> {TRUE}]

InitText ==
    /\ notes \in [Nids -> TextNoteVals]
    /\ stored = TextStored
    /\ overwrite_chk = get_config(stored).batch.overwrite
    /\ taskman_ok \in BOOLEAN
    /\ heap = <<>>
    /\ jobs = <<>>
    /\ table = <<>>
    /\ batch_bar = 0
    /\ queue_running = FALSE
    /\ mainq = <<>>
    /\ wu = <<>>
    /\ fg = 0

NextText ==
    \/ process_current_note(MaxJobs)
    \/ process_selected_notes(MaxJobs)
    \/ Bg(TextEnv)
    \/ MainOnDone
    \/ MainProcessNext
    \/ MainProgress

SpecText == InitText /\ [][NextText]_vars

\* ------------------------------------------------------------ vocabulary
JobSet == {jobs[i] : i \in 1..Len(jobs)}

\* Dispatched, and on_done has not run yet.
Outstanding(jid) == wu[jid].pc \in {"read", "synth", "store", "posted"}

\* The step is on_done for job jid.
CompletionStep(jid) == wu[jid].pc # "completed" /\ wu'[jid].pc = "completed"

\* The job's row, when the job is in the list.
Shown(jid) == jid \in JobSet /\ RowValid(table, heap[jid].row)

LabelOf(jid) == table[heap[jid].row + 1].state

\* ---------------------------------------------------------------- claims
\* C1: at most one job of the job list is in state processing, in every
\* reachable state.
AtMostOneProcessing ==
    Cardinality({i \in 1..Len(jobs) : heap[jobs[i]].state = "processing"}) <= 1

\* C2: at most one work unit is outstanding (dispatched, completion not yet
\* delivered) at any time.
OneWorkUnitOutstanding ==
    Cardinality({jid \in 1..Len(wu) : Outstanding(jid)}) <= 1

\* The foreground thread runs the completion or a progress report of a job that
\* Clear has removed from the list.
LateClosureStep ==
    /\ fg = 0
    /\ mainq # <<>>
    /\ Head(mainq).op \in {"on_done", "progress"}
    /\ Head(mainq).jid \notin JobSet
    /\ \/ mainq' = Tail(mainq)
       \/ mainq' = Append(Tail(mainq), Closure("process_next", 0, 0))

\* C3: the late completion or progress report of a work unit that was in
\* flight when Clear ran changes no row of the table, no state of a job in the
\* list, and neither the run flag nor the aggregate progress.
LateCompletionHarmless ==
    [][LateClosureStep =>
        /\ table' = table
        /\ jobs' = jobs
        /\ \A i \in 1..Len(jobs) : heap'[jobs[i]].state = heap[jobs[i]].state
        /\ queue_running' = queue_running
        /\ batch_bar' = batch_bar]_vars

\* C4: for jobs A before B in the list, B has left waiting only if A is in a
\* terminal state (B never starts while A is waiting or processing).
FifoOrder ==
    \A i, j \in 1..Len(jobs) :
        (i < j /\ heap[jobs[j]].state # "waiting") => heap[jobs[i]].state \in Terminal

\* C5: the state of a job changes only from waiting to processing and from
\* processing to done, skipped or error; a job enters the list waiting, or
\* processing when the handler that enqueued it also dispatched it.
JobStateTransitions ==
    [][/\ \A jid \in 1..Len(heap) :
            \/ heap'[jid].state = heap[jid].state
            \/ heap[jid].state = "waiting" /\ heap'[jid].state = "processing"
            \/ heap[jid].state = "processing" /\ heap'[jid].state \in Terminal
       /\ \A jid \in (Len(heap) + 1)..Len(heap') :
            heap'[jid].state \in {"waiting", "processing"}]_vars

JobStateWitness ==
    \E a, b \in 1..Len(heap) :
        /\ heap[a].state = "error"
        /\ heap[b].state \in {"done", "skipped"}
        /\ wu[a].pc = "completed"
        /\ wu[b].pc = "completed"

\* C6: a failure inside a work unit never leaves its job in processing with
\* the run flag set: a processing job has a work unit running or a completion
\* on its way.
NeverLeftProcessing ==
    \A jid \in 1..Len(heap) :
        (heap[jid].state = "processing" /\ queue_running) => Outstanding(jid)

\* C7: when Clear is not pressed and every work unit runs to its end, every
\* job ends in a terminal state and the run stops.
AllJobsFinish ==
    <>[](/\ \A jid \in 1..Len(heap) : heap[jid].state \in Terminal
         /\ ~queue_running)

\* C8: completion handling runs exactly once for every dispatched job: never
\* twice, and once when its work unit is over.
CompletionExactlyOnce ==
    \A jid \in 1..Len(wu) :
        /\ wu[jid].completions <= 1
        /\ (wu[jid].pc # "idle" /\ ~Outstanding(jid)) => wu[jid].completions = 1

\* The work unit of jid leaves its first part (the re-reads and skip checks).
ReadStep(jid) == wu[jid].pc = "read" /\ wu'[jid].pc # "read"

\* The record of jid is readable, and what the skip checks of jid see in it.
LiveNote(jid) == notes[heap[jid].nid]

SkipEmptyCase(jid) ==
    /\ LiveNote(jid).ok
    /\ Strip(LiveNote(jid).src) = <<>>
    /\ wu[jid].cfg.batch.skip_if_source_empty

SkipSoundCase(jid) ==
    /\ LiveNote(jid).ok
    /\ Contains(LiveNote(jid).dst, SoundMarker)
    /\ ~wu[jid].overwrite
    /\ wu[jid].cfg.batch.skip_if_target_has_sound

NoSideEffects(u) == ~u.called /\ ~u.stored /\ ~u.wrote

\* C9: a job whose live source is blank or whitespace, with
\* skip_if_source_empty set, gets outcome skip_empty with no provider call,
\* media store or record write, and completion makes it skipped with the label
\* skipped (empty).
SkipEmptyOutcome ==
    [][\A jid \in 1..Len(wu) :
        /\ (ReadStep(jid) /\ SkipEmptyCase(jid))
              => /\ wu'[jid].pc \in {"posted", "completed"}
                 /\ wu'[jid].result.status = "skip_empty"
        /\ wu'[jid].result.status = "skip_empty" => NoSideEffects(wu'[jid])
        /\ (CompletionStep(jid) /\ wu'[jid].result.status = "skip_empty")
              => /\ heap'[jid].state = "skipped"
                 /\ Shown(jid) => LabelOf(jid)' = <<"skipped (empty)">>]_vars

SkipEmptyWitness ==
    \E jid \in 1..Len(wu) :
        /\ wu[jid].pc = "completed"
        /\ wu[jid].result.status = "skip_empty"
        /\ LiveNote(jid).ok
        /\ LiveNote(jid).src = <<" ">>
        /\ heap[jid].state = "skipped"
        /\ Shown(jid)
        /\ LabelOf(jid) = <<"skipped (empty)">>

WriteStep(jid) == wu[jid].pc = "store" /\ wu'[jid].wrote

\* How many times t occurs in s.
Occurrences(s, t) ==
    Cardinality({i \in 0..(Len(s) - Len(t)) : SubSeq(s, i + 1, i + Len(t)) = t})

\* C11: in append mode, applying the field writer once more with the same tag
\* to the value it wrote gives that value again, for every field value,
\* separator and tag a write meets; the tag occurs in the written value as
\* often as before the write, or once when it was absent.
AppendIdempotent ==
    [][\A jid \in 1..Len(wu) :
        (WriteStep(jid) /\ ~wu[jid].overwrite /\ wu[jid].cfg.write_mode = "append")
           => LET tag == render_sound_tag(wu'[jid].result.stored_name)
                  before == notes[heap[jid].nid].dst
                  once == notes'[heap[jid].nid].dst
              IN  /\ NewFieldValue(wu[jid].cfg, FALSE, once, tag) = once
                  /\ Occurrences(once, tag) =
                        IF Occurrences(before, tag) = 0 THEN 1
                        ELSE Occurrences(before, tag)]_vars

\* Two jobs of one record wrote the same tag in append mode, after content the
\* field held before, and the field holds the tag once.
AppendTwiceWitness ==
    \E a, b \in 1..Len(wu) :
        /\ a < b
        /\ heap[a].nid = heap[b].nid
        /\ wu[a].pc = "completed" /\ wu[a].wrote
        /\ wu[b].pc = "completed" /\ wu[b].wrote
        /\ wu[a].result.stored_name = wu[b].result.stored_name
        /\ ~overwrite_chk
        /\ get_config(stored).write_mode = "append"
        /\ LET tag == render_sound_tag(wu[b].result.stored_name)
               dst == notes[heap[b].nid].dst
           IN  Occurrences(dst, tag) = 1 /\ Len(dst) > Len(tag)

\* C12: with Overwrite checked, a record write stores the new tag alone
\* whatever the field held and whatever write_mode says, and a job with a
\* readable, non-blank source goes on to synthesis whatever the field holds:
\* no job is skipped for having sound.
OverwriteReplaces ==
    [][\A jid \in 1..Len(wu) :
        /\ (WriteStep(jid) /\ wu[jid].overwrite)
              => notes'[heap[jid].nid].dst =
                    <<"[sound:">> \o wu'[jid].result.stored_name \o <<"]">>
        /\ (ReadStep(jid) /\ wu[jid].overwrite /\ LiveNote(jid).ok
                /\ Strip(LiveNote(jid).src) # <<>>)
              => wu'[jid].pc = "synth"
        /\ wu[jid].overwrite => wu'[jid].result.status # "skip_has_sound"]_vars

\* With Overwrite checked and write_mode append: one job has written its tag
\* alone, and another has passed the skip checks with a tag in its field.
OverwriteWitness ==
    /\ overwrite_chk
    /\ get_config(stored).write_mode = "append"
    /\ \E a, b \in 1..Len(wu) :
          /\ wu[a].pc = "completed" /\ wu[a].wrote /\ wu[a].result.status = "ok"
          /\ notes[heap[a].nid].dst = render_sound_tag(wu[a].result.stored_name)
          /\ wu[b].pc = "store" /\ wu[b].overwrite
          /\ Contains(LiveNote(b).dst, SoundMarker)

\* The run of the three records is over: the first skipped as empty, the
\* second skipped for having sound with nothing stored or written, the third
\* done with the tag of its stored name in its target.
ScenarioOutcome ==
    /\ Len(jobs) = 3
    /\ ~queue_running
    /\ heap[jobs[1]].state = "skipped"
    /\ wu[jobs[1]].result.status = "skip_empty"
    /\ heap[jobs[2]].state = "skipped"
    /\ wu[jobs[2]].result.status = "skip_has_sound"
    /\ NoSideEffects(wu[jobs[2]])
    /\ heap[jobs[3]].state = "done"
    /\ wu[jobs[3]].result.stored_name # <<>>
    /\ Contains(notes[3].dst,
                <<"[sound:">> \o wu[jobs[3]].result.stored_name \o <<"]">>)

\* C13: once the three records are enqueued, the run ends, and stays, with the
\* first job skipped (empty), the second skipped (has sound) and the third
\* done with its target holding the tag of the stored name; the second
\* record's target is never changed.
ScenarioEnds ==
    /\ [][notes'[2] = notes[2]]_vars
    /\ (Len(jobs) = 3) ~> [](ScenarioOutcome)

ScenarioWitness ==
    /\ ScenarioOutcome
    /\ mainq = <<>>
    /\ notes[2].dst = <<"x">> \o OldWav
    /\ notes[3].dst = render_sound_tag(wu[jobs[3]].asked)

\* Jobs a and b are of the same record, both are done, and b is the last job
\* enqueued for the record.
DoneTwice(a, b) ==
    /\ a < b
    /\ heap[a].nid = heap[b].nid
    /\ \A k \in 1..Len(heap) : heap[k].nid = heap[b].nid => k <= b
    /\ wu[a].pc = "completed" /\ heap[a].state = "done"
    /\ wu[b].pc = "completed" /\ heap[b].state = "done"

\* C14: with Overwrite checked, once two jobs of the same record are done the
\* record's target is exactly the tag of the name stored by the second job,
\* whatever names the media sink returned.
ReplaceTwice ==
    \A a, b \in 1..Len(wu) :
        (overwrite_chk /\ DoneTwice(a, b))
           => notes[heap[b].nid].dst =
                 <<"[sound:">> \o wu[b].result.stored_name \o <<"]">>

\* The sink renamed the first file and not the second.
ReplaceTwiceWitness ==
    \E a, b \in 1..Len(wu) :
        /\ overwrite_chk
        /\ DoneTwice(a, b)
        /\ wu[a].result.stored_name = Renamed(wu[a].asked)
        /\ wu[b].result.stored_name = wu[b].asked
        /\ notes[heap[b].nid].dst = render_sound_tag(wu[b].asked)

\* The configured template rendered for job jid.
Rendered(jid) ==
    Format(get_config(stored).filename_template, heap[jid].nid, DstField,
           FileExt(get_config(stored)))

\* C15: the name a job asks the media sink for is the rendered template when
\* that has 8 characters or more, and otherwise the safe file name of the
\* record's live source text; with the template {ext} it is never the bare
\* extension.
PreferredFileName ==
    \A jid \in 1..Len(wu) :
        (wu[jid].asked # <<>> /\ LiveNote(jid).ok)
           => /\ Len(Rendered(jid)) >= 8 => wu[jid].asked = Rendered(jid)
              /\ Len(Rendered(jid)) < 8
                    => wu[jid].asked =
                          safe_filename_from_text(LiveNote(jid).src,
                                                  FileExt(get_config(stored)))
              /\ wu[jid].asked # FileExt(get_config(stored))

\* A template that renders to 7 characters: the sink was asked for the name
\* made of the source text.
PreferredFileWitness ==
    \E jid \in 1..Len(wu) :
        /\ wu[jid].stored
        /\ Len(Rendered(jid)) = 7
        /\ wu[jid].asked = <<"h", "i", ".", "w", "a", "v">>

\* The keys section sec of the configuration c takes from the stored
\* configuration, and from the defaults where nothing is stored for them.
MergedSection(c, sec) ==
    /\ \A k \in DOMAIN SubDict(stored, sec) :
          k \in DOMAIN c[sec] /\ c[sec][k] = stored[sec][k]
    /\ \A k \in (DOMAIN DEFAULT_CONFIG[sec]) \ (DOMAIN SubDict(stored, sec)) :
          k \in DOMAIN c[sec] /\ c[sec][k] = DEFAULT_CONFIG[sec][k]

\* C16: the configuration a job is dispatched with has, in tts and in batch,
\* the stored value of every key the stored configuration sets and the default
\* value of every other key.
ConfigMerge ==
    \A jid \in 1..Len(wu) :
        Outstanding(jid)
           => MergedSection(wu[jid].cfg, "tts") /\ MergedSection(wu[jid].cfg, "batch")

\* Stored {tts: {voice: X}}: the job runs with voice X and the default model.
ConfigMergeWitness ==
    /\ stored = [tts |-> [voice |-> "X"]]
    /\ \E jid \in 1..Len(wu) :
          /\ Outstanding(jid)
          /\ wu[jid].cfg.tts.voice = "X"
          /\ wu[jid].cfg.tts.model = "qwen3-tts-flash"

\* The provider-scoped value of a setting: the entry of the selected provider
\* in the mapping when the mapping has a non-empty one, the flat field
\* otherwise.
ScopedValue(c, mapping, flat, empty) ==
    LET p == c.tts.provider
    IN  IF /\ mapping \in DOMAIN c.tts
           /\ p \in DOMAIN c.tts[mapping]
           /\ c.tts[mapping][p] # empty
        THEN c.tts[mapping][p]
        ELSE c.tts[flat]

\* s ends with t.
EndsWith(s, t) ==
    Len(s) >= Len(t) /\ SubSeq(s, Len(s) - Len(t) + 1, Len(s)) = t

\* C17: the key, model and voice a synthesis is run with, and the extension of
\* the file name asked for, are the selected provider's entries of
\* tts.api_keys, tts.models, tts.voices and tts.exts when present, and the
\* flat fields otherwise.
ProviderScopedLookup ==
    \A jid \in 1..Len(wu) :
        LET c == get_config(stored)
        IN  /\ wu[jid].args # NoArgs
                  => /\ wu[jid].args.api_key = ScopedValue(c, "api_keys", "api_key", <<>>)
                     /\ wu[jid].args.model = ScopedValue(c, "models", "model", "")
                     /\ wu[jid].args.voice = ScopedValue(c, "voices", "voice", "")
            /\ wu[jid].asked # <<>>
                  => EndsWith(wu[jid].asked, ScopedValue(c, "exts", "ext", <<>>))

\* C18: a job is done only if the record with the new field value was
\* persisted; a failure to persist makes the outcome error.
DoneMeansPersisted ==
    \A jid \in 1..Len(wu) : heap[jid].state = "done" => wu[jid].wrote

\* C19: a synthesis run with an empty API key returns an error without a
\* provider or download call, and its job ends in error with no media stored
\* and no record written.
NoKeyNoCall ==
    \A jid \in 1..Len(wu) :
        (wu[jid].args # NoArgs /\ wu[jid].args.api_key = <<>>)
           => /\ NoSideEffects(wu[jid])
              /\ wu[jid].pc \in {"posted", "completed"}
              /\ wu[jid].result.status = "error"
              /\ wu[jid].pc = "completed" => heap[jid].state = "error"

\* Nothing stored: the job has ended in error with the message of the missing
\* key on its row.
NoKeyWitness ==
    /\ stored = EmptyDict
    /\ \E jid \in 1..Len(wu) :
          /\ wu[jid].pc = "completed"
          /\ wu[jid].args # NoArgs
          /\ wu[jid].args.api_key = <<>>
          /\ heap[jid].state = "error"
          /\ Shown(jid)
          /\ LabelOf(jid) = <<"error: ", KeyError>>

\* The jobs of the list that are done, skipped or in error.
Finished == {i \in 1..Len(jobs) : heap[jobs[i]].state \in {"done", "skipped", "error"}}

\* C20: the batch bar shows floor(100 * finished / max(1, total)) over the jobs
\* of the list, in every state: after every enqueue, completion and Clear;
\* skipped and failed jobs count as finished, and the value is 0 when the list
\* is empty.
BatchBarRatio ==
    /\ batch_bar = (100 * Cardinality(Finished)) \div (IF Len(jobs) = 0 THEN 1 ELSE Len(jobs))
    /\ jobs = <<>> => batch_bar = 0

\* Three jobs in the list, one skipped, one failed and one not finished, and
\* the bar at 66.
BatchBarWitness ==
    /\ Len(jobs) = 3
    /\ \E i, j \in 1..3 : heap[jobs[i]].state = "skipped" /\ heap[jobs[j]].state = "error"
    /\ Cardinality(Finished) = 2
    /\ batch_bar = 66

EnqueueStep == Len(heap') > Len(heap)

\* C22: a handler that enqueues appends its jobs at the end of the list, in
\* order, each waiting on a row of its own, and changes the state of no job
\* already there; during a run it dispatches nothing and leaves the run flag,
\* the work units and the posted closures alone. (With no run active the
\* handler goes on to Start, which may dispatch one job.)
EnqueueOnlyAppends ==
    [][EnqueueStep =>
        LET n == Len(heap)
            m == Len(heap')
        IN  /\ jobs' = jobs \o [i \in 1..(m - n) |-> n + i]
            /\ Len(table') = Len(table) + (m - n)
            /\ \A k, l \in (n + 1)..m : k # l => heap'[k].nid # heap'[l].nid
            /\ \A k \in (n + 1)..m :
                  /\ heap'[k].row = Len(table) + (k - n) - 1
                  /\ heap'[k].state = "waiting" \/ (~queue_running /\ heap'[k].state = "processing")
            /\ \A jid \in 1..n :
                  \/ heap'[jid] = heap[jid]
                  \/ ~queue_running /\ heap[jid].state = "waiting"
                        /\ heap'[jid].state = "processing"
            /\ queue_running =>
                  /\ queue_running'
                  /\ \A k \in (n + 1)..m : heap'[k].state = "waiting" /\ wu'[k] = IdleWu
                  /\ \A jid \in 1..n : heap'[jid] = heap[jid] /\ wu'[jid] = wu[jid]
                  /\ mainq' = mainq
                  /\ fg' = fg]_vars

\* Two records were enqueued while the first job was processing: they wait
\* behind it, undispatched.
EnqueueWitness ==
    /\ Len(jobs) = 3
    /\ queue_running
    /\ heap[jobs[1]].state = "processing"
    /\ heap[jobs[2]].state = "waiting" /\ wu[jobs[2]] = IdleWu
    /\ heap[jobs[3]].state = "waiting" /\ wu[jobs[3]] = IdleWu
    /\ heap[jobs[2]].nid # heap[jobs[3]].nid

\* The job _start_queue would dispatch: the first waiting job of the list, or
\* the first of the jobs about to be appended.
FirstWaiting ==
    LET w == {i \in 1..Len(jobs) : heap[jobs[i]].state = "waiting"}
    IN  IF w = {} THEN Len(heap) + 1
        ELSE jobs[CHOOSE i \in w : \A j \in w : i <= j]

\* The jobs that the step puts into processing.
Dispatched ==
    {jid \in 1..Len(heap') :
        /\ heap'[jid].state = "processing"
        /\ jid > Len(heap) \/ heap[jid].state # "processing"}

\* C23: _start_queue begins the drive loop only when no run is active and the
\* list is not empty. Called during a run it dispatches nothing and changes no
\* job state; called with no run active and a non-empty list it sets the run
\* flag and dispatches the first waiting job; on an empty list it leaves the
\* run stopped, changes nothing and shows no summary.
StartGuard ==
    [][/\ (EnqueueStep /\ queue_running) =>
            /\ queue_running'
            /\ Dispatched = {}
            /\ \A jid \in 1..Len(heap) : heap'[jid].state = heap[jid].state
       /\ (EnqueueStep /\ ~queue_running) =>
            /\ queue_running'
            /\ Dispatched = {FirstWaiting}
       /\ LET r == StartQueueR(heap, <<>>, table, wu, FALSE)
          IN  /\ ~r.running /\ ~r.summary
              /\ r.heap = heap /\ r.table = table /\ r.wu = wu]_vars

\* The same record was handed in a second time while its first job was being
\* stored: the second job waits.
StartGuardWitness ==
    /\ Len(jobs) = 2
    /\ queue_running
    /\ heap[jobs[1]].nid = heap[jobs[2]].nid
    /\ heap[jobs[1]].state = "processing" /\ wu[jobs[1]].pc = "store"
    /\ heap[jobs[2]].state = "waiting" /\ wu[jobs[2]] = IdleWu

\* C24: a job appended to the list, during a run or after one has drained,
\* is dispatched and reaches a terminal state, and a job in a terminal state
\* stays there.
AppendedJobsProcessed ==
    \A k \in 1..QueueJobs :
        (k <= Len(jobs) /\ heap[jobs[k]].state = "waiting")
            ~> [](k <= Len(jobs) /\ heap[jobs[k]].state \in Terminal)

\* The same, for the behaviours in which run_in_background is available.
AppendedJobsProcessedAsync ==
    \A k \in 1..QueueJobs :
        (taskman_ok /\ k <= Len(jobs) /\ heap[jobs[k]].state = "waiting")
            ~> [](k <= Len(jobs) /\ heap[jobs[k]].state \in Terminal)

\* C25: whenever the run flag is false, no job of the list is processing.
StoppedMeansIdle ==
    ~queue_running => \A i \in 1..Len(jobs) : heap[jobs[i]].state # "processing"

\* C26: in append mode the value written is computed from the target field
\* as it is when the work unit stores, after synthesis: what the field holds
\* then, changed by another party or not, is a prefix of the written value,
\* whatever the read before synthesis saw.
ExternalEditPreserved ==
    [][\A jid \in 1..Len(wu) :
        (WriteStep(jid) /\ ~wu[jid].overwrite /\ wu[jid].cfg.write_mode = "append")
           => LET live == notes[heap[jid].nid].dst
                  new == notes'[heap[jid].nid].dst
                  tag == render_sound_tag(wu'[jid].result.stored_name)
              IN  /\ new = NewFieldValue(wu[jid].cfg, FALSE, live, tag)
                  /\ SubSeq(new, 1, Len(live)) = live
                  /\ Contains(new, tag)]_vars

\* The work unit saw an empty target before synthesis, another party wrote
\* "e" to it during synthesis, and the written value is "e" followed by the
\* tag.
ExternalEditWitness ==
    \E jid \in 1..Len(wu) :
        LET d == notes[heap[jid].nid].dst
        IN  /\ wu[jid].wrote
            /\ wu[jid].seen = <<>>
            /\ d # <<>> /\ Head(d) = "e"
            /\ Contains(d, render_sound_tag(wu[jid].result.stored_name))

\* The media sink refuses the bytes of jid: a name was asked for and nothing
\* was stored.
RefusalStep(jid) ==
    /\ wu[jid].pc = "store" /\ wu'[jid].pc \in {"posted", "completed"}
    /\ wu'[jid].asked # <<>> /\ ~wu'[jid].stored

\* C27: a record changes only in the write of a work unit whose outcome is ok,
\* and then only in its target field; a work unit with any other outcome has
\* written nothing. When the media sink refuses the bytes the outcome is error
\* with the message "failed to store media", the record stays as it is, and
\* completion makes the job error with that message on its row.
NonOkLeavesRecord ==
    [][/\ \A nid \in Nids :
            notes'[nid] # notes[nid]
               => /\ notes'[nid].src = notes[nid].src
                  /\ \E jid \in 1..Len(wu) :
                        /\ WriteStep(jid) /\ heap[jid].nid = nid
                        /\ wu'[jid].result.status = "ok"
       /\ \A jid \in 1..Len(wu) :
            /\ wu'[jid].result.status \notin {"ok", "none"} => ~wu'[jid].wrote
            /\ RefusalStep(jid)
                  => /\ notes' = notes
                     /\ ~wu'[jid].wrote
                     /\ wu'[jid].result.status = "error"
                     /\ wu'[jid].pc = "posted"
                           => wu'[jid].result.err = "failed to store media"
            /\ (CompletionStep(jid) /\ wu'[jid].asked # <<>> /\ ~wu'[jid].stored)
                  => /\ heap'[jid].state = "error"
                     /\ Shown(jid)
                           => LabelOf(jid)' = <<"error: ", "failed to store media">>]_vars

\* The sink refused the bytes of a job: the job is error with the message on
\* its row, and nothing was written.
RefusalWitness ==
    \E jid \in JobSet :
        /\ wu[jid].pc = "completed"
        /\ wu[jid].asked # <<>> /\ ~wu[jid].stored /\ ~wu[jid].wrote
        /\ wu[jid].audio = "bytes"
        /\ heap[jid].state = "error"
        /\ RowValid(table, heap[jid].row)
        /\ LabelOf(jid) = <<"error: ", "failed to store media">>

\* C28: when the provider succeeds with an empty payload the outcome of the
\* work unit is no_audio; such a unit has asked the media sink for nothing and
\* has stored and written nothing, and completion makes the job error, with
\* the label "no audio" on its row.
NoAudioIsError ==
    [][\A jid \in 1..Len(wu) :
        /\ (wu[jid].pc = "synth" /\ wu'[jid].pc # "synth" /\ wu'[jid].audio = "empty")
              => /\ wu'[jid].pc \in {"posted", "completed"}
                 /\ wu'[jid].result.status = "no_audio"
                 /\ wu'[jid].called
                 /\ notes' = notes
        /\ wu'[jid].result.status = "no_audio"
              => /\ wu'[jid].audio = "empty"
                 /\ wu'[jid].asked = <<>> /\ ~wu'[jid].stored /\ ~wu'[jid].wrote
        /\ (CompletionStep(jid) /\ wu'[jid].result.status = "no_audio")
              => /\ heap'[jid].state = "error"
                 /\ Shown(jid) => LabelOf(jid)' = <<"no audio">>]_vars

\* A provider call gave an empty payload: the job is error with "no audio" on
\* its row, nothing stored, nothing written.
NoAudioWitness ==
    \E jid \in JobSet :
        /\ wu[jid].pc = "completed"
        /\ wu[jid].called /\ wu[jid].audio = "empty"
        /\ wu[jid].result.status = "no_audio"
        /\ ~wu[jid].stored /\ ~wu[jid].wrote
        /\ heap[jid].state = "error"
        /\ RowValid(table, heap[jid].row)
        /\ LabelOf(jid) = <<"no audio">>

\* C29: in append mode, when the field does not hold the tag, the value
\* written is the current value, then the separator (the configured one, a
\* space when none is configured) if the current value is not blank, then the
\* tag; the current value is a prefix of it.
AppendFormula ==
    [][\A jid \in 1..Len(wu) :
        LET before == notes[heap[jid].nid].dst
            new == notes'[heap[jid].nid].dst
            tag == render_sound_tag(wu'[jid].result.stored_name)
            sep == IF wu[jid].cfg.append_separator = <<>> THEN <<" ">>
                   ELSE wu[jid].cfg.append_separator
        IN  (/\ WriteStep(jid) /\ ~wu[jid].overwrite
             /\ wu[jid].cfg.write_mode = "append"
             /\ ~Contains(before, tag))
               => /\ Strip(before) # <<>> => new = (before \o sep) \o tag
                  /\ Strip(before) = <<>> => new = before \o tag
                  /\ SubSeq(new, 1, Len(before)) = before]_vars

\* A field holding one space was appended to: the space, then the tag, with
\* no separator between.
AppendBlankWitness ==
    \E jid \in 1..Len(wu) :
        /\ wu[jid].wrote
        /\ notes[heap[jid].nid].dst = <<" ">> \o render_sound_tag(wu[jid].result.stored_name)

\* A field with content was appended to: content, separator, tag.
AppendSepWitness ==
    \E jid \in 1..Len(wu) :
        LET d == notes[heap[jid].nid].dst
            tag == render_sound_tag(wu[jid].result.stored_name)
        IN  /\ wu[jid].wrote
            /\ Len(d) > Len(tag) + 1
            /\ SubSeq(d, Len(d) - Len(tag) + 1, Len(d)) = tag
            /\ Strip(SubSeq(d, 1, Len(d) - Len(tag))) # <<>>

\* The per-provider maps nested under tts.
ProviderMaps == {"api_keys", "models", "voices", "exts"}

\* What the stored configuration sets in the per-provider map m.
StoredMap(m) == SubDict(SubDict(stored, "tts"), m)

\* C30: in the configuration a job is dispatched with, every provider entry
\* of a per-provider map that the stored configuration does not set is
\* present with its default value.
DefaultsAtEveryLevel ==
    \A jid \in 1..Len(wu) :
        Outstanding(jid)
           => \A m \in ProviderMaps :
                 \A p \in (DOMAIN DEFAULT_CONFIG.tts[m]) \ (DOMAIN StoredMap(m)) :
                    /\ p \in DOMAIN wu[jid].cfg.tts[m]
                    /\ wu[jid].cfg.tts[m][p] = DEFAULT_CONFIG.tts[m][p]

\* The values the closures waiting on the foreground thread report for jid.
RECURSIVE ReportedIn(_, _)
ReportedIn(mq, jid) ==
    IF mq = <<>> THEN <<>>
    ELSE (IF Head(mq).op = "progress" /\ Head(mq).jid = jid THEN <<Head(mq).pct>> ELSE <<>>)
            \o ReportedIn(Tail(mq), jid)

\* The provider call of jid returns.
SynthStep(jid) == wu[jid].pc = "synth" /\ wu'[jid].pc # "synth"

\* C31: a download that succeeds reports a last value of 100; with no known
\* total it reports nothing else, and with a known total every value before
\* the last is floor(downloaded * 100 / total) capped at 100 and the values
\* never decrease.
DownloadProgress ==
    [][\A jid \in 1..Len(wu) :
        (SynthStep(jid) /\ wu'[jid].dl # NoDl /\ wu'[jid].audio # "none")
           => LET d == wu'[jid].dl
                  R == ReportedIn(mainq', jid)
              IN  /\ R # <<>> /\ R[Len(R)] = 100
                  /\ d.total = 0 => R = <<100>>
                  /\ d.total # 0 =>
                        /\ \A i \in 1..(Len(R) - 1) :
                              /\ R[i] = Min((SumTo(d.chunks, i) * 100) \div d.total, 100)
                              /\ R[i] <= R[i + 1]]_vars

\* The same for the downloads whose total is known.
DownloadProgressKnownTotal ==
    [][\A jid \in 1..Len(wu) :
        (SynthStep(jid) /\ wu'[jid].dl # NoDl /\ wu'[jid].audio # "none"
            /\ wu'[jid].dl.total # 0)
           => LET d == wu'[jid].dl
                  R == ReportedIn(mainq', jid)
              IN  /\ R # <<>> /\ R[Len(R)] = 100
                  /\ \A i \in 1..(Len(R) - 1) :
                        /\ R[i] = Min((SumTo(d.chunks, i) * 100) \div d.total, 100)
                        /\ R[i] <= R[i + 1]]_vars

\* C32: the provider call of a work unit ends either with no bytes and an
\* error, which makes the outcome error, or with a payload and no error, and
\* then the provider was called and the download, if there was one, succeeded.
SynthesisTotal ==
    [][\A jid \in 1..Len(wu) :
        SynthStep(jid)
           => /\ wu'[jid].audio = "none"
                    => /\ wu'[jid].pc \in {"posted", "completed"}
                       /\ wu'[jid].result.status = "error"
                       /\ wu'[jid].pc = "posted" => wu'[jid].result.err \notin {"none", ""}
              /\ wu'[jid].audio # "none"
                    => /\ wu'[jid].called
                       /\ wu'[jid].result.status \in {"none", "no_audio"}
                       /\ wu'[jid].dl # NoDl
                             => http_get_bytes_stream(wu'[jid].dl).err = "none"]_vars

\* The same for the downloads that do not fail with an empty message.
SynthesisTotalWithMessage ==
    [][\A jid \in 1..Len(wu) :
        (SynthStep(jid) /\ wu'[jid].dl.urllib # "fail_silent")
           => /\ wu'[jid].audio = "none"
                    => /\ wu'[jid].pc \in {"posted", "completed"}
                       /\ wu'[jid].result.status = "error"
              /\ wu'[jid].audio # "none"
                    => /\ wu'[jid].called
                       /\ wu'[jid].result.status \in {"none", "no_audio"}]_vars

\* The step is one of the work unit of jid running on a pool thread.
PoolStep(jid) ==
    /\ ~wu[jid].sync
    /\ wu[jid].pc \in {"read", "synth", "store"}
    /\ wu'[jid] # wu[jid]

\* C33: a step of a work unit on a pool thread leaves the job list, every job
\* dict, the run flag, the table and the batch bar as they are; it reads the
\* job, and what it has to tell goes to the foreground thread as closures
\* appended to its queue.
ForegroundOnlyWrites ==
    [][\A jid \in 1..Len(wu) :
        PoolStep(jid)
           => /\ UNCHANGED <<heap, jobs, queue_running, table, batch_bar, fg>>
              /\ Len(mainq') >= Len(mainq)
              /\ SubSeq(mainq', 1, Len(mainq)) = mainq
              /\ \A i \in (Len(mainq) + 1)..Len(mainq') :
                    mainq'[i].jid = jid /\ mainq'[i].op \in {"progress", "on_done"}]_vars

\* A work unit on a pool thread has written the record and posted its result,
\* and its job is still processing, its row still showing the generating label.
ForegroundOnlyWitness ==
    \E jid \in JobSet :
        /\ ~wu[jid].sync /\ wu[jid].pc = "posted" /\ wu[jid].wrote
        /\ wu[jid].result.status = "ok"
        /\ heap[jid].state = "processing"
        /\ queue_running
        /\ RowValid(table, heap[jid].row)
        /\ LabelOf(jid) \in {<<"processing (generating...)">>, <<"processing (downloading...)">>}

\* The job dict of jid changes in the step.
JobChanges(jid) == jid <= Len(heap) /\ heap'[jid] # heap[jid]

\* C34: of two jobs that carry the same record id, a step that dispatches or
\* completes one leaves the job dict of the other as it is: state, progress,
\* text and row.
SameRecordIndependent ==
    [][\A i, j \in 1..Len(heap') :
        (i # j /\ heap'[i].nid = heap'[j].nid)
           => /\ ~(JobChanges(i) /\ JobChanges(j))
              /\ (i <= Len(wu) /\ CompletionStep(i) /\ j <= Len(heap))
                    => heap'[j] = heap[j]
              /\ (JobChanges(i) /\ j > Len(heap)) => heap'[j].state = "waiting"]_vars

\* Two jobs of one record in the list: the first is done at 100 and the second
\* still waits at 0.
SameRecordWitness ==
    /\ Len(jobs) >= 2
    /\ heap[jobs[1]].nid = heap[jobs[2]].nid
    /\ heap[jobs[1]].state = "done" /\ heap[jobs[1]].progress = 100
    /\ heap[jobs[2]].state = "waiting" /\ heap[jobs[2]].progress = 0

\* C35: the provider call of a job dispatched with the OpenAI provider
\* reports one progress value, 100, when it returns without error, and none
\* when it fails (the key missing, or the request raising).
OneShotProgress ==
    [][\A jid \in 1..Len(wu) :
        (SynthStep(jid) /\ wu[jid].cfg.tts.provider = "openai")
           => LET R == ReportedIn(mainq', jid)
              IN  /\ ReportedIn(mainq, jid) = <<>>
                  /\ wu'[jid].audio # "none" => R = <<100>>
                  /\ wu'[jid].audio = "none"
                        => R = <<>> /\ wu'[jid].result.status = "error"]_vars

\* An OpenAI job has its audio and one report of 100 waits for the foreground
\* thread.
OneShotWitness ==
    \E jid \in 1..Len(wu) :
        /\ wu[jid].pc = "store"
        /\ wu[jid].cfg.tts.provider = "openai"
        /\ wu[jid].audio = "bytes"
        /\ ReportedIn(mainq, jid) = <<100>>

\* An OpenAI job failed in the request and nothing was reported.
OneShotFailWitness ==
    \E jid \in 1..Len(wu) :
        /\ wu[jid].pc = "posted"
        /\ wu[jid].cfg.tts.provider = "openai"
        /\ wu[jid].called /\ wu[jid].result.err = "OpenAI error"
        /\ ReportedIn(mainq, jid) = <<>>

\* The job jid is dispatched in the step.
DispatchStep(jid) == wu'[jid].pc # "idle" /\ (jid > Len(wu) \/ wu[jid].pc = "idle")

\* C36: a work unit runs with the configuration and the overwrite flag read
\* when its job is dispatched: those are the stored configuration over the
\* defaults and the check box as they are at the dispatch, whenever the job
\* was enqueued; no later change of either reaches the unit, whose provider
\* arguments and written value come from what it was dispatched with.
SettingsAtDispatch ==
    [][\A jid \in 1..Len(wu') :
        /\ DispatchStep(jid)
              => /\ wu'[jid].cfg = get_config(stored)
                 /\ wu'[jid].overwrite = overwrite_chk
        /\ (jid <= Len(wu) /\ Outstanding(jid) /\ wu'[jid].pc # "completed")
              => /\ wu'[jid].cfg = wu[jid].cfg
                 /\ wu'[jid].overwrite = wu[jid].overwrite
        /\ (jid <= Len(wu) /\ SynthStep(jid))
              => wu'[jid].args = ProviderArgs(wu[jid].cfg)
        /\ (jid <= Len(wu) /\ WriteStep(jid))
              => LET tag == render_sound_tag(wu'[jid].result.stored_name)
                     before == notes[heap[jid].nid].dst
                 IN  notes'[heap[jid].nid].dst =
                        IF wu[jid].overwrite THEN tag
                        ELSE NewFieldValue(wu[jid].cfg, FALSE, before, tag)]_vars

\* A work unit in flight was dispatched with Overwrite off and the default
\* voice; since then Overwrite was switched on and the voice X stored, and a
\* second job waits behind it.
SettingsWitness ==
    /\ Len(jobs) = 2
    /\ Outstanding(jobs[1])
    /\ ~wu[jobs[1]].overwrite /\ overwrite_chk
    /\ wu[jobs[1]].cfg.tts.voice = "Ethan"
    /\ get_config(stored).tts.voice = "X"
    /\ heap[jobs[2]].state = "waiting"

\* The second job, dispatched after the change, runs with Overwrite on and the
\* voice X, and the first job appended.
SettingsLaterWitness ==
    /\ Len(jobs) = 2
    /\ heap[jobs[1]].state = "done" /\ wu[jobs[1]].wrote
    /\ Len(notes[heap[jobs[1]].nid].dst) > 1
    /\ Outstanding(jobs[2])
    /\ heap[jobs[1]].nid # heap[jobs[2]].nid
    /\ wu[jobs[2]].overwrite /\ wu[jobs[2]].cfg.tts.voice = "X"

\* C37: the table has one row per job of the list, and the row index a job
\* holds is its position in the list, counted from 0.
RowsMatchJobs ==
    /\ Len(table) = Len(jobs)
    /\ \A i \in 1..Len(jobs) : heap[jobs[i]].row = i - 1

\* After a Clear two jobs were enqueued again: they hold rows 0 and 1 of a
\* table of two rows, while a job from before the Clear still exists.
RowsMatchWitness ==
    /\ Len(heap) = 3 /\ Len(jobs) = 2 /\ Len(table) = 2
    /\ heap[jobs[1]].row = 0 /\ heap[jobs[2]].row = 1
    /\ heap[1].row = 0 /\ 1 \notin JobSet

NoBlanks(s) == RemoveChars(s, WS)

\* C39: the safe file name a job asks the sink for is a base, a dot and the
\* extension. The base is the first 20 characters of the job's text without
\* the nine unsafe characters and without surrounding blanks, or "audio" when
\* nothing is left; it holds none of the nine characters, is not empty, does
\* not begin or end with a blank and has at most 20 characters.
SafeFileName ==
    \A jid \in 1..Len(wu) :
        wu[jid].asked # <<>>
           => LET name == wu[jid].asked
                  ext == FileExt(get_config(stored))
                  n == Len(name) - Len(ext) - 1
                  base == SubSeq(name, 1, n)
                  first == Prefix(wu[jid].text, 20)
                  kept == Strip(RemoveChars(first, UnsafeChars))
              IN  /\ n >= 1
                  /\ SubSeq(name, n + 1, Len(name)) = <<".">> \o ext
                  /\ \A i \in 1..n : base[i] \notin UnsafeChars
                  /\ base[1] \notin WS /\ base[n] \notin WS
                  /\ n <= 20
                  /\ base = IF kept = <<>> THEN AudioWord ELSE kept
                  /\ NoBlanks(base) =
                        IF NoBlanks(RemoveChars(first, UnsafeChars)) = <<>> THEN AudioWord
                        ELSE NoBlanks(RemoveChars(first, UnsafeChars))

\* The text "<b> h" gave the name "b h.wav": the brackets are gone and the
\* blank inside stays.
SafeFileWitness ==
    \E jid \in 1..Len(wu) :
        /\ wu[jid].text = <<"<", "b", ">", " ", "h">>
        /\ wu[jid].asked = <<"b", " ", "h", ".">> \o Ext

\* The text "?*" gave the name "audio.wav".
SafeFileAudioWitness ==
    \E jid \in 1..Len(wu) :
        /\ wu[jid].text = <<"?", "*">>
        /\ wu[jid].asked = AudioWord \o <<".">> \o Ext

Entities == {"&lt;", "&gt;", "&amp;"}

\* C40: the text a job is enqueued with is the source field with the tag
\* spans removed first and the entities decoded afterwards: an encoded tag
\* stays as literal text, a literal tag is removed, an empty field gives the
\* empty text, and no entity is left.
StripThenDecode ==
    \A jid \in 1..Len(heap) :
        LET src == notes[heap[jid].nid].src
            text == heap[jid].text
        IN  /\ text = Unescape(StripTagsFrom(src, 1))
            /\ \A i \in 1..Len(text) : text[i] \notin Entities
            /\ Len(text) <= Len(src)
            /\ src = <<>> => text = <<>>
            /\ src = <<"&lt;", "b", "&gt;", "h">> => text = <<"<", "b", ">", "h">>
            /\ src = <<"<", "b", ">", " ", "h">> => text = <<" ", "h">>
            /\ src = <<"<", "b">> => text = <<"<", "b">>

\* Of two jobs, one was enqueued from "&lt;b&gt;h" and carries "<b>h", the
\* other from "<b> h" and carries " h".
StripThenDecodeWitness ==
    \E i, j \in 1..Len(heap) :
        /\ notes[heap[i].nid].src = <<"&lt;", "b", "&gt;", "h">>
        /\ heap[i].text = <<"<", "b", ">", "h">>
        /\ notes[heap[j].nid].src = <<"<", "b", ">", " ", "h">>
        /\ heap[j].text = <<" ", "h">>

====
